---- MODULE Spec2Model ----
(***************************************************************************)
(* A model of the key-event handlers of the getreuer QMK keymap.           *)
(*                                                                         *)
(* process_record_user() of the keymap runs the handlers in order:         *)
(* process_achordion() (features/achordion.c), then                        *)
(* process_repeat_key_with_rev() (repeat_key.c); an event that all of them *)
(* let through goes on to the later handlers and to the default key        *)
(* handling ("downstream"), which the model records but does not execute.  *)
(* The events a handler plumbs back with process_record() re-enter the     *)
(* same pipeline, so the handlers are re-entered; the model follows these  *)
(* nested calls.  matrix_scan_user() runs achordion_task().                *)
(*                                                                         *)
(* Spec feeds the pipeline the tap-hold keys and the plain keys that       *)
(* Achordion decides on.  RepeatSpec feeds it the Repeat and the Alternate *)
(* Repeat key and keys for them to remember.  CountSpec and ReplaySpec     *)
(* feed it the Repeat key in a row and with a layer-tap key.  AltSpec      *)
(* looks up the Alternate Repeat complement of a remembered key.           *)
(* SentenceSpec, PlainSpec and ModifierSpec feed process_sentence_case()   *)
(* (features/sentence_case.c) typed text, Enter and Tab, and modifier and  *)
(* layer keys.  SelectSpec feeds process_select_word() (select_word.c) the *)
(* Select Word key and runs select_word_task(); CustomSpec feeds           *)
(* process_custom_shift_keys() (custom_shift_keys.c) remapped keys.        *)
(* HeldSpec feeds the Repeat keys an eligible key while a trigger is held. *)
(* OverlaySpec feeds process_select_word() the Select Word key with Shift  *)
(* and Alt held.  WrapSpec runs the three idle tasks across the wraparound *)
(* of the 16-bit clock.  HistorySpec feeds the process_sentence_case()     *)
(* that keeps a state history typed text and Backspace.                    *)
(***************************************************************************)
EXTENDS Integers, Sequences, FiniteSets, TLC

VARIABLES
  \* ---- the clock and the key matrix (the framework's side)
  timer,             \* timer_read(): the 16-bit millisecond clock
  polls,             \* number of matrix scans so far (bounds the run)
  matrix,            \* the keys physically held down
  tapcnt,            \* tap.count the framework gave each held key's press
  mods,              \* the real modifiers (register_mods/unregister_mods)
  layer_state,       \* the layer bitmask (layer_on/layer_off)
  user_chord,        \* the build links the keymap's achordion_chord(), not
                     \* the weak default of achordion.c
  \* ---- features/achordion.c
  tap_hold_keycode, tap_hold_record, hold_timer, hold_mods, hold_layer, settled,
  \* ---- repeat_key.c
  last_record, last_layer_state, last_keycode, last_mods, repeat_counter,
  recursing,
  weak_mods,         \* get_weak_mods()
  registered,        \* keycodes registered by register_code16()
  \* ---- the Alternate Repeat callback of the keymap (getreuer.c)
  alt,               \* the last complement looked up: by which lookup, and
                     \* the keycode it returned
  \* ---- features/sentence_case.c
  sentence_state, buffer, idle_timer,
  state_history,     \* part_006: the states before the last HISTORY_SIZE keys
  suppress_key,      \* part_006: the letter capitalized last
  \* ---- select_word.c
  state,             \* the state of the Select Word macro
  select_idle_timer, \* idle_timer of select_word.c
  \* ---- custom_shift_keys.c
  restore_late,      \* the build links the custom_shift_keys.c that restores
                     \* the Shift mods at the next event (part_005), not the
                     \* one that restores them right away (part_006)
  registered_keycode,             \* part_006
  csk_saved_mods,    \* saved_mods of part_005
  active_key,        \* part_005
  csk_shifted,       \* shifted of part_005
  \* ---- observation of the run (not program state)
  out,               \* what the last handler did, in order
  last,              \* the last action: a key event or a matrix scan
  solo,              \* the key whose press was the last key event, or "none"
  holds,             \* per keycode: hold actions applied since its last press
  taps,              \* per keycode: tap presses replayed since its last press
  phrase,            \* Sentence Case: how far the typed text is through
                     \* "word, punctuation, Spaces"
  chorded,           \* Select Word: the keys pressed while the Select Word
                     \* key was down, since its last press
  nesting,           \* per engine: how deep the process_record() calls it
                     \* made were nested in the last handler
  run                \* Sentence Case with a history: the classified presses
                     \* in a row and the Backspaces after them

achVars == <<tap_hold_keycode, tap_hold_record, hold_timer, hold_mods,
             hold_layer, settled>>
repVars == <<last_record, last_layer_state, last_keycode, last_mods,
             repeat_counter, recursing, weak_mods, registered>>
senVars == <<sentence_state, buffer, idle_timer, state_history,
             suppress_key>>
selVars == <<state, select_idle_timer>>
cskVars == <<restore_late, registered_keycode, csk_saved_mods, active_key,
             csk_shifted>>
vars == <<timer, polls, matrix, tapcnt, mods, layer_state, user_chord,
          achVars, repVars, alt, senVars, selVars, cskVars,
          out, last, solo, holds, taps, phrase, chorded, nesting, run>>

----------------------------------------------------------------------------
(* Bounds of the model. *)

\* Matrix scans in one run.
MaxPolls == 3
\* Keys held down at the same time.
MaxDown == 2
\* Consecutive presses of the Repeat key (caps repeat_counter).
MaxRepeats == 2
\* Milliseconds of clock between two modelled matrix scans.
Tick == 401
\* Matrix scans of a behaviour of RepeatSpec.
MaxRepeatPolls == 2
\* Keys the sentence-case buffer takes in a behaviour of SentenceSpec.
MaxTyped == 5
\* Keys the sentence-case buffer takes in a behaviour of PlainSpec.
MaxPlain == 4
\* Keys the sentence-case buffer takes in a behaviour of ModifierSpec.
MaxModified == 4
\* Keys the sentence-case buffer takes in a behaviour of SelectSpec.
MaxSelected == 3
\* Matrix scans of a behaviour of SelectSpec.
MaxSelectPolls == 2
\* Milliseconds between two matrix scans of SelectSpec.
SelectTick == 1500
\* Keys the sentence-case buffer takes in a behaviour of WrapSpec.
MaxWrapped == 2
\* Matrix scans of a behaviour of WrapSpec.
MaxWrapPolls == 6
\* Milliseconds between two matrix scans of WrapSpec.
WrapTick == 700
\* The clock at the start of a behaviour of WrapSpec, before the wraparound.
WrapStart == 64000
\* Classified presses in a row in a behaviour of HistorySpec.
MaxRun == 8
\* Matrix scans of a behaviour of SentenceSpec.
MaxSentencePolls == 2
\* Milliseconds of clock between two matrix scans of SentenceSpec.
SentenceTick == 1500
\* Presses of the Repeat key in a row in CountSpec (caps repeat_counter).
MaxCount == 257

----------------------------------------------------------------------------
(* Keycodes and bit arithmetic. *)

KC_NO == 0
QK_MOD_TAP == 8192          \* 0x2000
QK_MOD_TAP_MAX == 16383     \* 0x3FFF
QK_LAYER_TAP == 16384       \* 0x4000
QK_LAYER_TAP_MAX == 20479   \* 0x4FFF
TimerModulus == 65536       \* uint16_t
TimerHalf == 32767          \* UINT16_MAX / 2
NoPos == 254                \* key.row, key.col of a combo event
QK_TO == 20992                     \* 0x5200
QK_TO_MAX == 21023                 \* 0x521F
QK_MOMENTARY == 21024              \* 0x5220
QK_MOMENTARY_MAX == 21055          \* 0x523F
QK_TOGGLE_LAYER == 21088           \* 0x5260
QK_TOGGLE_LAYER_MAX == 21119       \* 0x527F
QK_ONE_SHOT_LAYER == 21120         \* 0x5280
QK_ONE_SHOT_LAYER_MAX == 21151     \* 0x529F
QK_ONE_SHOT_MOD == 21152           \* 0x52A0
QK_ONE_SHOT_MOD_MAX == 21183       \* 0x52BF
QK_LAYER_TAP_TOGGLE == 21184       \* 0x52C0
QK_LAYER_TAP_TOGGLE_MAX == 21215   \* 0x52DF
QK_BASIC_MAX == 255                \* IS_QK_BASIC
QK_RALT == 5120                    \* 0x1400
KC_LCTL == 224
KC_LSFT == 225
KC_LALT == 226
KC_RALT == 230
KC_RGUI == 231
KC_HYPR == 3840                    \* 0x0F00
KC_MEH == 1792                     \* 0x0700
SAFE_RANGE == 32320                \* 0x7E40

RECURSIVE BitOr(_, _)
BitOr(a, b) ==
  IF a = 0 THEN b
  ELSE IF b = 0 THEN a
  ELSE (IF a % 2 = 1 \/ b % 2 = 1 THEN 1 ELSE 0) + 2 * BitOr(a \div 2, b \div 2)

RECURSIVE BitAnd(_, _)
BitAnd(a, b) ==
  IF a = 0 \/ b = 0 THEN 0
  ELSE (IF a % 2 = 1 /\ b % 2 = 1 THEN 1 ELSE 0) + 2 * BitAnd(a \div 2, b \div 2)

\* a & ~b
BitClear(a, b) == a - BitAnd(a, b)

RECURSIVE Pow2(_)
Pow2(n) == IF n = 0 THEN 1 ELSE 2 * Pow2(n - 1)

----------------------------------------------------------------------------
(* The keymap: the keys whose events the model feeds to the pipeline. *)

KC_D == 7
KC_K == 14
KC_T == 23
KC_EQL == 46
KC_Z == 29
KC_A == 4
KC_G == 10
KC_H == 11
KC_S == 22
KC_U == 24
MOD_RCTL == 17              \* 0x11
KC_ESC == 41
KC_SCLN == 51
KC_RGHT == 79
KC_LEFT == 80
MOD_LCTL == 1
MOD_LGUI == 8
MOD_RSFT == 18              \* 0x12
MOD_RGUI == 24              \* 0x18
SYM == 2
BASE == 0
MATRIX_ROWS == 12
MATRIX_COLS == 6
SPLIT_KEYBOARD == TRUE

MT(mod, kc) == QK_MOD_TAP + (mod % 32) * 256 + kc
LT(layer, kc) == QK_LAYER_TAP + (layer % 16) * 256 + kc

HOME_D == MT(MOD_LCTL, KC_D)     \* Ctrl when held, D when tapped
HOME_T == MT(MOD_RSFT, KC_T)     \* right Shift when held
HOME_A == LT(SYM, KC_A)          \* SYM layer when held
NAV_EQL == LT(BASE, KC_EQL)      \* layer 0 when held (src/getreuer.c)
HOME_Z == MT(MOD_RGUI, KC_Z)     \* bypasses Achordion (timeout 0)
HOME_U == MT(MOD_LCTL, KC_U)
HOME_H == MT(MOD_RCTL, KC_H)
HOME_S == LT(SYM, KC_S)
HOME_SC == MT(MOD_LGUI, KC_SCLN) \* bypasses Achordion too; not in KeyDef
REPEAT == SAFE_RANGE + 10        \* enum custom_keycodes
REVREP == SAFE_RANGE + 11
SELWORD == SAFE_RANGE + 3        \* enum custom_keycodes of keymap.c

\* key name -> keycode and matrix position.  The keys are keys of the
\* repository's keymaps; rows 0..5 are the left half, rows 6..11 the right
\* half, rows 4, 5, 10 and 11 lie below the alphas.  "CMB" is a combo: an
\* event with no matrix position, pressed in neither specification below.
KeyDef ==
  [ D   |-> [kc |-> HOME_D, row |-> 2, col |-> 3],
    A   |-> [kc |-> HOME_A, row |-> 2, col |-> 1],
    EQL |-> [kc |-> NAV_EQL, row |-> 3, col |-> 5],
    T   |-> [kc |-> HOME_T, row |-> 8, col |-> 2],
    Z   |-> [kc |-> HOME_Z, row |-> 9, col |-> 4],
    K   |-> [kc |-> KC_K,   row |-> 8, col |-> 3],
    LEFT |-> [kc |-> KC_LEFT, row |-> 10, col |-> 1],
    LSFT |-> [kc |-> KC_LSFT, row |-> 3, col |-> 0],
    REP |-> [kc |-> REPEAT, row |-> 11, col |-> 0],
    REV |-> [kc |-> REVREP, row |-> 11, col |-> 4],
    SEL |-> [kc |-> SELWORD, row |-> 5, col |-> 2],
    CMB |-> [kc |-> KC_ESC, row |-> NoPos, col |-> NoPos] ]

Keys == DOMAIN KeyDef
\* The keys pressed in Spec, and those pressed in RepeatSpec.
AchKeys == {"D", "A", "EQL", "Z", "K"}
RepKeys == {"T", "LEFT", "LSFT", "REP", "REV"}
Keycodes == {KeyDef[k].kc : k \in Keys}

\* The framework's keymap lookup: the keycode of the key at a position.
KeycodeAt(row, col) ==
  KeyDef[CHOOSE k \in Keys : KeyDef[k].row = row /\ KeyDef[k].col = col].kc

IsModTap(keycode) == QK_MOD_TAP <= keycode /\ keycode <= QK_MOD_TAP_MAX
IsLayerTap(keycode) == QK_LAYER_TAP <= keycode /\ keycode <= QK_LAYER_TAP_MAX
IsTapHold(keycode) == IsModTap(keycode) \/ IsLayerTap(keycode)

\* tap.count values the framework can give a press: 0 (held) or 1 (tapped)
\* for a tap-hold key, 0 for any other key.  A is pressed both ways, the
\* other tap-hold keys as held.
TapCounts(k) == IF k = "A" THEN {0, 1} ELSE {0}

NoRecord == [row |-> 0, col |-> 0, pressed |-> FALSE, time |-> 0, count |-> 0]

----------------------------------------------------------------------------
(* The state the handlers of one event work on, and what they do to it.   *)
(* A handler is a function from this record to this record: the nested    *)
(* calls of process_record() thread it through.                           *)

\* One entry of `out`: an operation of a handler, with the real mods and the
\* layer state right after it.  op "default" is an event that reached the
\* handlers after Achordion and the default key handling; its arg is the
\* event's tap.count.
Ev(op, kc, arg, pressed, st) ==
  [op |-> op, kc |-> kc, arg |-> arg, pressed |-> pressed,
   mods |-> st.mods, layers |-> st.layer_state]

\* The states part_006 keeps of sentence_case.c, one per key typed.
HISTORY_SIZE == 8

\* No classified press to take back.
NoRun == [before |-> <<>>, n |-> 0, back |-> 0]

\* No process_record() call of Achordion (ach) or Repeat Key (rep) is open.
NoCalls == [ach |-> 0, rep |-> 0]

Cur ==
  [tap_hold_keycode |-> tap_hold_keycode, tap_hold_record |-> tap_hold_record,
   hold_timer |-> hold_timer, hold_mods |-> hold_mods,
   hold_layer |-> hold_layer, settled |-> settled,
   last_record |-> last_record, last_layer_state |-> last_layer_state,
   last_keycode |-> last_keycode, last_mods |-> last_mods,
   repeat_counter |-> repeat_counter, recursing |-> recursing,
   weak_mods |-> weak_mods, registered |-> registered,
   sentence_state |-> sentence_state, buffer |-> buffer,
   idle_timer |-> idle_timer,
   state_history |-> state_history, suppress_key |-> suppress_key,
   state |-> state, select_idle_timer |-> select_idle_timer,
   registered_keycode |-> registered_keycode,
   saved_mods |-> csk_saved_mods, active_key |-> active_key,
   shifted |-> csk_shifted,
   mods |-> mods, layer_state |-> layer_state, timer |-> timer,
   user_chord |-> user_chord, out |-> <<>>,
   calls |-> NoCalls, deepest |-> NoCalls, run |-> run,
   \* process_record_user() is that of keymap.c, not that of part_000
   keymap |-> FALSE]

\* Names the keycode a handler did its last operation for.
For(st, kc) == [st EXCEPT !.out[Len(st.out)].kc = kc]

Log(st, op, kc, arg, pressed) ==
  [st EXCEPT !.out = Append(@, Ev(op, kc, arg, pressed, st))]

register_mods(st, m) ==
  Log([st EXCEPT !.mods = BitOr(@, m)], "register_mods", KC_NO, m, TRUE)

unregister_mods(st, m) ==
  Log([st EXCEPT !.mods = BitClear(@, m)], "unregister_mods", KC_NO, m, FALSE)

layer_on(st, l) ==
  Log([st EXCEPT !.layer_state = BitOr(@, Pow2(l))], "layer_on", KC_NO, l, TRUE)

layer_off(st, l) ==
  Log([st EXCEPT !.layer_state = BitClear(@, Pow2(l))], "layer_off", KC_NO, l,
      FALSE)

TAP_CODE_DELAY == 5

\* wait_ms(): the handler busy-waits.  No handler reads the clock before the
\* next matrix scan, so the wait is part of the time to that scan.
wait_ms(st, ms) == Log(st, "wait_ms", KC_NO, ms, FALSE)

\* Mutant: the 16-bit values are compared as they are.
timer_expired_plain(current, future) == current >= future

timer_expired(current, future) ==
  ((current - future) % TimerModulus) < TimerHalf

----------------------------------------------------------------------------
(* features/achordion.c *)

apply_hold_action(st) ==
  IF IsModTap(st.tap_hold_keycode)
    THEN LET m4 == (st.tap_hold_keycode \div 256) % 16
             m  == IF (st.tap_hold_keycode \div 4096) % 2 = 1
                     THEN (m4 * 16) % 256 ELSE m4
         IN  For(register_mods([st EXCEPT !.hold_mods = m], m),
                 st.tap_hold_keycode)
    ELSE LET l == (st.tap_hold_keycode \div 256) % 16
         IN  For(layer_on([st EXCEPT !.hold_layer = l], l),
                 st.tap_hold_keycode)

clear_hold_action(st) ==
  IF st.hold_mods # 0
    THEN [unregister_mods(st, st.hold_mods) EXCEPT !.hold_mods = 0]
    ELSE IF st.hold_layer # 0
      THEN [layer_off(st, st.hold_layer) EXCEPT !.hold_layer = 0]
      ELSE st

on_left_hand(row, col) ==
  IF SPLIT_KEYBOARD
    THEN row < MATRIX_ROWS \div 2
    ELSE IF MATRIX_COLS > MATRIX_ROWS
      THEN col < MATRIX_COLS \div 2
      ELSE row < MATRIX_ROWS \div 2

achordion_opposite_hands(thr, other) ==
  on_left_hand(thr.row, thr.col) # on_left_hand(other.row, other.col)

\* Mutant: the hands test inverted.
achordion_chord_same(thk, thr, other_keycode, other) ==
  ~achordion_opposite_hands(thr, other)

\* The default (weak) achordion_chord() of achordion.c.
achordion_chord_weak(thk, thr, other_keycode, other) ==
  achordion_opposite_hands(thr, other)

\* The keymap's achordion_chord().
achordion_chord(thk, thr, other_keycode, other) ==
  IF thk = HOME_A /\ other_keycode = HOME_U
    THEN TRUE
    ELSE IF thk = HOME_S /\ (other_keycode = HOME_H \/ other_keycode = KC_G)
      THEN TRUE
      ELSE IF other.row % (MATRIX_ROWS \div 2) >= 4
        THEN TRUE
        ELSE achordion_opposite_hands(thr, other)

\* Mutant: the weak default of achordion.c, with no key bypassing.
achordion_timeout_weak(keycode) == 1000

\* The keymap's achordion_timeout().
achordion_timeout(keycode) ==
  IF keycode = HOME_SC \/ keycode = HOME_Z THEN 0 ELSE 800

is_physical_pos(rec) == rec.row < 254 /\ rec.col < 254

RECURSIVE ProcessRecord(_, _)

\* A process_record() call made by a handler of engine `who`: the handlers of
\* the event run inside the call.  `calls` counts the calls of the engine that
\* are open, `deepest` is the most it came to.
NestedRecord(st, rec, who) ==
  LET d  == st.calls[who] + 1
      s1 == [st EXCEPT !.calls[who] = d,
                       !.deepest[who] = IF d > @ THEN d ELSE @]
      s2 == ProcessRecord(s1, rec)
  IN  [s2 EXCEPT !.calls[who] = d - 1]

\* Mutant: the press that is captured goes on to the later handlers.
AchordionIdlePass(st, keycode, rec) ==
  IF rec.pressed /\ is_physical_pos(rec) /\ IsTapHold(keycode) /\ rec.count = 0
       /\ achordion_timeout(keycode) > 0
    THEN [st |-> Log([st EXCEPT !.settled = FALSE,
                               !.tap_hold_keycode = keycode,
                               !.tap_hold_record = rec,
                               !.hold_timer = (rec.time + achordion_timeout(keycode))
                                                % TimerModulus],
                     "capture", keycode, 0, TRUE),
          ret |-> TRUE]
    ELSE [st |-> st, ret |-> TRUE]

\* process_achordion() with no active tap-hold key.
AchordionIdle(st, keycode, rec) ==
  IF rec.pressed /\ is_physical_pos(rec) /\ IsTapHold(keycode) /\ rec.count = 0
       /\ achordion_timeout(keycode) > 0
    THEN [st |-> Log([st EXCEPT !.settled = FALSE,
                               !.tap_hold_keycode = keycode,
                               !.tap_hold_record = rec,
                               !.hold_timer = (rec.time + achordion_timeout(keycode))
                                                % TimerModulus],
                     "capture", keycode, 0, TRUE),
          ret |-> FALSE]
    ELSE [st |-> st, ret |-> TRUE]

\* Mutant: the release of the active key is not blocked.
AchordionReleasePass(st, keycode, rec) ==
  [st |-> clear_hold_action([st EXCEPT !.tap_hold_keycode = KC_NO]),
   ret |-> TRUE]

\* process_achordion(): the active tap-hold key is released.
AchordionRelease(st, keycode, rec) ==
  [st |-> clear_hold_action([st EXCEPT !.tap_hold_keycode = KC_NO]),
   ret |-> FALSE]

\* The tap replay of AchordionSettle: the press, the wait, the release.
TapReplay(s1) ==
  LET a == [s1 EXCEPT !.tap_hold_record.count = 1]
      b == NestedRecord(a, a.tap_hold_record, "ach")
      c == wait_ms(b, TAP_CODE_DELAY)
      d == [c EXCEPT !.tap_hold_record.pressed = FALSE]
  IN  NestedRecord(d, d.tap_hold_record, "ach")

SettlesAsHold(s1, keycode, rec) ==
  \/ ~is_physical_pos(rec)
  \/ (IsTapHold(keycode) /\ rec.count = 0)
  \/ IF s1.user_chord
       THEN achordion_chord(s1.tap_hold_keycode, s1.tap_hold_record,
                            keycode, rec)
       ELSE achordion_chord_weak(s1.tap_hold_keycode, s1.tap_hold_record,
                                 keycode, rec)

\* Mutant: a missing else, the tap is replayed after the hold action too.
AchordionSettleBoth(st, keycode, rec) ==
  LET s1 == [st EXCEPT !.settled = TRUE]
      s2 == IF SettlesAsHold(s1, keycode, rec)
              THEN TapReplay(apply_hold_action(s1))
              ELSE TapReplay(s1)
  IN  [st |-> ProcessRecord(s2, rec), ret |-> FALSE]

\* Mutant: the event is re-processed before the hold action is applied.
AchordionSettleLate(st, keycode, rec) ==
  LET s1 == [st EXCEPT !.settled = TRUE]
      s2 == ProcessRecord(s1, rec)
  IN  [st |-> IF SettlesAsHold(s1, keycode, rec)
                THEN apply_hold_action(s2) ELSE TapReplay(s2),
       ret |-> FALSE]

\* Mutant: the original event is not blocked after it was re-processed.
AchordionSettlePass(st, keycode, rec) ==
  LET s1 == [st EXCEPT !.settled = TRUE]
      s2 == IF SettlesAsHold(s1, keycode, rec)
              THEN apply_hold_action(s1) ELSE TapReplay(s1)
  IN  [st |-> ProcessRecord(s2, rec), ret |-> TRUE]

\* Mutant: the key is marked settled only once the handler was re-entered.
AchordionSettleReentered(st, keycode, rec) ==
  LET s1 == [st EXCEPT !.settled = st.calls.ach > 0]
      s2 == IF SettlesAsHold(s1, keycode, rec)
              THEN apply_hold_action(s1)
              ELSE TapReplay(s1)
  IN  [st |-> NestedRecord(s2, rec, "ach"), ret |-> FALSE]

\* process_achordion(): a press while the active key is unsettled.
AchordionSettle(st, keycode, rec) ==
  LET s1 == [st EXCEPT !.settled = TRUE]
      s2 == IF SettlesAsHold(s1, keycode, rec)
              THEN apply_hold_action(s1)
              ELSE TapReplay(s1)
  IN  [st |-> NestedRecord(s2, rec, "ach"), ret |-> FALSE]

\* The variant where any event of another key settles the active key.
process_achordion_any(st, keycode, rec) ==
  IF st.tap_hold_keycode = KC_NO
    THEN AchordionIdle(st, keycode, rec)
    ELSE IF keycode = st.tap_hold_keycode /\ ~rec.pressed
      THEN AchordionRelease(st, keycode, rec)
      ELSE IF ~st.settled
        THEN AchordionSettle(st, keycode, rec)
        ELSE [st |-> st, ret |-> TRUE]

process_achordion(st, keycode, rec) ==
  IF st.tap_hold_keycode = KC_NO
    THEN AchordionIdle(st, keycode, rec)
    ELSE IF keycode = st.tap_hold_keycode /\ ~rec.pressed
      THEN AchordionRelease(st, keycode, rec)
      ELSE IF ~st.settled /\ rec.pressed
        THEN AchordionSettle(st, keycode, rec)
        ELSE [st |-> st, ret |-> TRUE]

\* Mutant: the timeout does not mark the key settled.
achordion_task_unsettled(st) ==
  IF ~st.settled /\ timer_expired(st.timer, st.hold_timer)
    THEN apply_hold_action(st)
    ELSE st

achordion_task(st) ==
  IF ~st.settled /\ timer_expired(st.timer, st.hold_timer)
    THEN apply_hold_action([st EXCEPT !.settled = TRUE])
    ELSE st

----------------------------------------------------------------------------
(* repeat_key.c *)

\* The time stamp of an event: never 0, which marks "no event".
EventTime(t) == BitOr(t, 1)

IS_NOEVENT(rec) == rec.time = 0 \/ (rec.row = 255 /\ rec.col = 255)
IS_QK_BASIC(keycode) == keycode <= QK_BASIC_MAX
MOD_BIT(keycode) == Pow2(keycode % 8)

set_mods(st, m) == Log([st EXCEPT !.mods = m], "set_mods", KC_NO, m, FALSE)

register_code16(st, keycode) ==
  Log([st EXCEPT !.registered = @ \cup {keycode}], "register_code16",
      keycode, 0, TRUE)

unregister_code16(st, keycode) ==
  Log([st EXCEPT !.registered = @ \ {keycode}], "unregister_code16",
      keycode, 0, FALSE)

\* Mutant: the replayed event is plumbed in without the recursion flag.
recursively_process_repeat_key_unguarded(st, pressed, time) ==
  IF st.recursing \/ IS_NOEVENT(st.last_record)
    THEN st
    ELSE
      LET s2 == register_mods(st, st.last_mods)
          s3 == [s2 EXCEPT !.layer_state = st.last_layer_state,
                           !.last_record.pressed = pressed,
                           !.last_record.time = EventTime(time)]
          s4 == ProcessRecord(s3, s3.last_record)
          s5 == [s4 EXCEPT !.layer_state = st.layer_state]
      IN  IF st.mods # s5.mods THEN set_mods(s5, st.mods) ELSE s5

\* Mutant: the remembered mods are not applied for the replay.
recursively_process_repeat_key_bare(st, pressed, time) ==
  IF st.recursing \/ IS_NOEVENT(st.last_record)
    THEN st
    ELSE
      LET s1 == IF pressed /\ st.repeat_counter < 255
                  THEN [st EXCEPT !.repeat_counter = @ + 1] ELSE st
          s3 == [s1 EXCEPT !.layer_state = s1.last_layer_state,
                           !.last_record.pressed = pressed,
                           !.last_record.time = EventTime(time),
                           !.recursing = TRUE]
          s4 == ProcessRecord(s3, s3.last_record)
          s5 == [s4 EXCEPT !.recursing = FALSE,
                           !.layer_state = s1.layer_state]
      IN  IF s1.mods # s5.mods THEN set_mods(s5, s1.mods) ELSE s5

\* Mutant: the overlay is taken off again instead of the saved mods being
\* put back.
recursively_process_repeat_key_unregister(st, pressed, time) ==
  IF st.recursing \/ IS_NOEVENT(st.last_record)
    THEN st
    ELSE
      LET s1 == Log(IF pressed /\ st.repeat_counter < 255
                      THEN [st EXCEPT !.repeat_counter = @ + 1] ELSE st,
                    "replay", st.last_keycode, 0, pressed)
          s2 == register_mods(s1, s1.last_mods)
          s3 == [s2 EXCEPT !.layer_state = s2.last_layer_state,
                           !.last_record.pressed = pressed,
                           !.last_record.time = EventTime(time),
                           !.recursing = TRUE]
          s4 == ProcessRecord(s3, s3.last_record)
          s5 == [s4 EXCEPT !.recursing = FALSE,
                           !.layer_state = s2.layer_state]
      IN  Log(unregister_mods(s5, s5.last_mods),
              "replayed", st.last_keycode, 0, pressed)

\* The entries "replay" and "replayed" of `out` mark the start (line 38) and
\* the end (line 65) of a replay, with the mods and layers there.
recursively_process_repeat_key(st, pressed, time) ==
  IF st.recursing \/ IS_NOEVENT(st.last_record)
    THEN st
    ELSE
      LET s1 == Log(IF pressed /\ st.repeat_counter < 255
                      THEN [st EXCEPT !.repeat_counter = @ + 1] ELSE st,
                    "replay", st.last_keycode, 0, pressed)
          saved_mods == s1.mods
          s2 == register_mods(s1, s1.last_mods)
          saved_layer_state == s2.layer_state
          s3 == [s2 EXCEPT !.layer_state = s2.last_layer_state,
                           !.last_record.pressed = pressed,
                           !.last_record.time = EventTime(time),
                           !.recursing = TRUE]
          s4 == NestedRecord(s3, s3.last_record, "rep")
          s5 == [s4 EXCEPT !.recursing = FALSE,
                           !.layer_state = saved_layer_state]
      IN  Log(IF saved_mods # s5.mods THEN set_mods(s5, saved_mods) ELSE s5,
              "replayed", st.last_keycode, 0, pressed)

\* Mutant: the counter survives a new key.
remember_key_press_counting(st, keycode, rec) ==
  [st EXCEPT !.last_record = rec,
             !.last_layer_state = st.layer_state,
             !.last_keycode = keycode,
             !.last_mods = BitOr(st.mods, st.weak_mods)]

\* No one-shot mods are modelled: get_oneshot_mods() is 0.
remember_key_press(st, keycode, rec) ==
  [st EXCEPT !.last_record = rec,
             !.last_layer_state = st.layer_state,
             !.last_keycode = keycode,
             !.last_mods = BitOr(st.mods, st.weak_mods),
             !.repeat_counter = 0]

\* The default (weak) repeat_key_press_user().
repeat_key_press_user(keycode, rec) ==
  IF \/ (QK_MOMENTARY <= keycode /\ keycode <= QK_MOMENTARY_MAX)
     \/ (QK_TO <= keycode /\ keycode <= QK_TO_MAX)
     \/ (QK_TOGGLE_LAYER <= keycode /\ keycode <= QK_TOGGLE_LAYER_MAX)
     \/ (QK_LAYER_TAP_TOGGLE <= keycode /\ keycode <= QK_LAYER_TAP_TOGGLE_MAX)
     \/ (KC_LCTL <= keycode /\ keycode <= KC_RGUI)
     \/ keycode = KC_HYPR
     \/ keycode = KC_MEH
     \/ (QK_ONE_SHOT_LAYER <= keycode /\ keycode <= QK_ONE_SHOT_LAYER_MAX)
     \/ (QK_ONE_SHOT_MOD <= keycode /\ keycode <= QK_ONE_SHOT_MOD_MAX)
    THEN FALSE
    ELSE IF IsModTap(keycode) \/ IsLayerTap(keycode)
      THEN rec.count # 0
      ELSE TRUE

process_repeat_key(st, keycode, rec, repeat_keycode) ==
  IF st.recursing
    THEN [st |-> st, ret |-> TRUE]
    ELSE IF keycode = repeat_keycode
      THEN [st |-> recursively_process_repeat_key(st, rec.pressed, rec.time),
            ret |-> FALSE]
      ELSE IF rec.pressed /\ repeat_key_press_user(keycode, rec)
        THEN [st |-> remember_key_press(st, keycode, rec), ret |-> TRUE]
        ELSE [st |-> st, ret |-> TRUE]

\* The table of alternate pairs, as the flat array the lookup walks.
rev_repeat_key_pairs == <<KC_LEFT, KC_RGHT>>

rev_repeat_key_keycode(st) ==
  LET m == st.last_mods
      t1 == IF IS_QK_BASIC(st.last_keycode)
              THEN BitOr(st.last_keycode,
                         (BitOr(m \div 16, BitAnd(m, 15)) * 256) % 65536)
              ELSE st.last_keycode
      target == IF IS_QK_BASIC(st.last_keycode) /\ BitAnd(m, QK_RALT) = QK_RALT
                  THEN BitOr(t1, MOD_BIT(KC_RALT)) ELSE t1
      found == {i \in DOMAIN rev_repeat_key_pairs :
                  rev_repeat_key_pairs[i] = target}
  IN  IF found = {} THEN KC_NO
      ELSE LET i == CHOOSE j \in found : \A h \in found : j <= h
           IN  \* the other element of the pair: index (i - 1) ^ 1, from 0
               rev_repeat_key_pairs[IF i % 2 = 1 THEN i + 1 ELSE i - 1]

rev_repeat_key_register(st) ==
  LET keycode == rev_repeat_key_keycode(st)
  IN  IF keycode # 0
        THEN [st |-> register_code16(st, keycode), ret |-> TRUE]
        ELSE [st |-> st, ret |-> FALSE]

rev_repeat_key_unregister(st) ==
  LET keycode == rev_repeat_key_keycode(st)
  IN  IF keycode # 0
        THEN [st |-> unregister_code16(st, keycode), ret |-> TRUE]
        ELSE [st |-> st, ret |-> FALSE]

\* Mutant: the alternate's branch falls through into the Repeat handler.
process_repeat_key_with_rev_both(st, keycode, rec, repeat_keycode, rev_keycode) ==
  IF keycode = rev_keycode
    THEN LET r == IF rec.pressed THEN rev_repeat_key_register(st)
                                 ELSE rev_repeat_key_unregister(st)
         IN  process_repeat_key(r.st, keycode, rec, rev_keycode)
    ELSE process_repeat_key(st, keycode, rec, repeat_keycode)

process_repeat_key_with_rev(st, keycode, rec, repeat_keycode, rev_keycode) ==
  IF keycode = rev_keycode
    THEN LET r == IF rec.pressed THEN rev_repeat_key_register(st)
                                 ELSE rev_repeat_key_unregister(st)
         IN  [st |-> r.st, ret |-> ~r.ret]
    ELSE process_repeat_key(st, keycode, rec, repeat_keycode)

----------------------------------------------------------------------------
(* The keymap's handlers. *)

\* The handlers of keymap.c after Achordion, defined with WrapSpec.
RECURSIVE KeymapHandlers(_, _, _)

\* process_record_user() of the keymap: Achordion comes first, then Repeat
\* Key (in keymap.c: Sentence Case and Select Word); an event all return
\* true for goes on to the later handlers and the default handling.
process_record_user(st, keycode, rec) ==
  LET a == process_achordion(st, keycode, rec)
  IN  IF ~a.ret THEN a
      ELSE IF st.keymap THEN KeymapHandlers(a.st, keycode, rec)
      ELSE process_repeat_key_with_rev(a.st, keycode, rec, REPEAT, REVREP)

IS_MODIFIER_KEYCODE(keycode) == KC_LCTL <= keycode /\ keycode <= KC_RGUI

\* The framework's default handling of an event: it is logged with the mods
\* it finds, and a modifier key registers or unregisters its own bit.
DefaultAction(st, keycode, rec) ==
  LET s1 == Log(st, "default", keycode, rec.count, rec.pressed)
  IN  IF ~IS_MODIFIER_KEYCODE(keycode) THEN s1
      ELSE IF rec.pressed THEN register_mods(s1, MOD_BIT(keycode))
      ELSE unregister_mods(s1, MOD_BIT(keycode))

\* The framework's process_record(): looks the keycode up, runs
\* process_record_user(), and handles the event unless that returned false.
ProcessRecord(st, rec) ==
  LET keycode == KeycodeAt(rec.row, rec.col)
      r == process_record_user(st, keycode, rec)
  IN  IF r.ret THEN DefaultAction(r.st, keycode, rec) ELSE r.st

----------------------------------------------------------------------------
(* The actions of Spec: key events and matrix scans. *)

Min(a, b) == IF a < b THEN a ELSE b

GhostKeycodes == {kc \in Keycodes : IsTapHold(kc)}

IsHoldOp(e) == e.op \in {"register_mods", "layer_on"}
IsTapPress(e) == e.op = "default" /\ e.pressed /\ e.arg > 0 /\ IsTapHold(e.kc)

\* The counters after a handler whose operations were o.  A key's counters
\* start again at its press, and are dropped at the first key event after
\* its release: `live` are the keycodes whose counters carry over.
Count(old, o, live, Is(_)) ==
  LET kept == [kc \in GhostKeycodes |-> IF kc \in live THEN old[kc] ELSE 0]
  IN  IF \A i \in DOMAIN o : ~Is(o[i]) THEN kept
      ELSE [kc \in GhostKeycodes |->
              Min(3, kept[kc]
                     + Cardinality({i \in DOMAIN o : Is(o[i]) /\ o[i].kc = kc}))]

Held == {KeyDef[k].kc : k \in matrix}

Commit(st) ==
  /\ tap_hold_keycode' = st.tap_hold_keycode
  /\ tap_hold_record' = st.tap_hold_record
  /\ hold_timer' = st.hold_timer
  /\ hold_mods' = st.hold_mods
  /\ hold_layer' = st.hold_layer
  /\ settled' = st.settled
  /\ mods' = st.mods
  /\ layer_state' = st.layer_state
  /\ timer' = st.timer
  /\ user_chord' = user_chord
  /\ last_record' = st.last_record
  /\ last_layer_state' = st.last_layer_state
  /\ last_keycode' = st.last_keycode
  /\ last_mods' = st.last_mods
  /\ repeat_counter' = st.repeat_counter
  /\ recursing' = st.recursing
  /\ weak_mods' = st.weak_mods
  /\ registered' = st.registered
  /\ alt' = alt
  /\ sentence_state' = st.sentence_state
  /\ buffer' = st.buffer
  /\ idle_timer' = st.idle_timer
  /\ state_history' = st.state_history
  /\ suppress_key' = st.suppress_key
  /\ state' = st.state
  /\ select_idle_timer' = st.select_idle_timer
  /\ restore_late' = restore_late
  /\ registered_keycode' = st.registered_keycode
  /\ csk_saved_mods' = st.saved_mods
  /\ active_key' = st.active_key
  /\ csk_shifted' = st.shifted
  /\ out' = st.out
  /\ nesting' = st.deepest
  /\ run' = st.run

NoKey ==
  [act |-> "none", k |-> "none", count |-> 0,
   alone |-> FALSE, early |-> FALSE, captured |-> FALSE, counted |-> FALSE]

Captured(o) == \E i \in DOMAIN o : o[i].op = "capture"

\* Key k goes down; the framework gives the press tap.count c.  `counted`:
\* the repeat counter was not 0 when the event came.
PressKey(k, c) ==
  /\ k \notin matrix
  /\ Cardinality(matrix) < MaxDown
  /\ LET rec == [row |-> KeyDef[k].row, col |-> KeyDef[k].col,
                 pressed |-> TRUE, time |-> EventTime(timer), count |-> c]
     IN  \E st \in {ProcessRecord(Cur, rec)} :
         /\ Commit(st)
         /\ holds' = Count(holds, st.out, Held, IsHoldOp)
         /\ taps' = Count(taps, st.out, Held, IsTapPress)
         /\ last' = [act |-> "press", k |-> k, count |-> c, alone |-> FALSE,
                     early |-> FALSE, captured |-> Captured(st.out),
                     counted |-> repeat_counter # 0]
  /\ solo' = k
  /\ matrix' = matrix \cup {k}
  /\ tapcnt' = [tapcnt EXCEPT ![k] = c]
  /\ UNCHANGED <<polls, phrase, chorded>>

\* Key k goes up; its release carries the tap.count of its press.  `alone`:
\* no key event since its press; `early`: the deadline has not passed;
\* `captured`: it is the active tap-hold key.
ReleaseKey(k) ==
  /\ k \in matrix
  /\ LET rec == [row |-> KeyDef[k].row, col |-> KeyDef[k].col,
                 pressed |-> FALSE, time |-> EventTime(timer),
                 count |-> tapcnt[k]]
     IN  \E st \in {ProcessRecord(Cur, rec)} :
         /\ Commit(st)
         /\ holds' = Count(holds, st.out, Held, IsHoldOp)
         /\ taps' = Count(taps, st.out, Held, IsTapPress)
         /\ last' = [act |-> "release", k |-> k, count |-> tapcnt[k],
                     alone |-> solo = k,
                     early |-> ~timer_expired(timer, hold_timer),
                     captured |-> tap_hold_keycode = KeyDef[k].kc,
                     counted |-> repeat_counter # 0]
  /\ solo' = "none"
  /\ matrix' = matrix \ {k}
  /\ tapcnt' = [tapcnt EXCEPT ![k] = 0]
  /\ UNCHANGED <<polls, phrase, chorded>>

\* matrix_scan_user(), dt milliseconds after the previous scan.
MatrixScan(dt) ==
  /\ polls < MaxPolls
  /\ polls' = polls + 1
  /\ \E st \in {achordion_task([Cur EXCEPT
                                     !.timer = (timer + dt) % TimerModulus])} :
         /\ Commit(st)
         /\ holds' = Count(holds, st.out, GhostKeycodes, IsHoldOp)
         /\ taps' = taps
  /\ last' = [NoKey EXCEPT !.act = "scan"]
  /\ UNCHANGED <<matrix, tapcnt, solo, phrase, chorded>>

RepInit ==
  /\ last_record = NoRecord
  /\ last_layer_state = 0
  /\ last_keycode = KC_NO
  /\ last_mods = 0
  /\ repeat_counter = 0
  /\ recursing = FALSE
  /\ weak_mods = 0
  /\ registered = {}

STATE_INIT == 0
STATE_WORD == 1
STATE_MATCHED == 2
STATE_ABBREV == 3
STATE_ENDING == 4
STATE_PRIMED == 5
SENTENCE_CASE_BUFFER_SIZE == 8
SENTENCE_CASE_TIMEOUT == 2000

\* The static state of sentence_case.c.
SenInit ==
  /\ sentence_state = STATE_INIT
  /\ buffer = [i \in 1..SENTENCE_CASE_BUFFER_SIZE |-> KC_NO]
  /\ idle_timer = 0

\* The states of select_word.c.  Its STATE_WORD is SELECT_STATE_WORD here:
\* sentence_case.c has a STATE_WORD of its own.
STATE_NONE == 0
STATE_SELECTED == 1
SELECT_STATE_WORD == 2
STATE_FIRST_LINE == 3
STATE_LINE == 4
SELECT_WORD_TIMEOUT == 2000

SelInit ==
  /\ state = STATE_NONE
  /\ select_idle_timer = 0

\* The static state of custom_shift_keys.c.
kNone == 255

CskInit ==
  /\ registered_keycode = KC_NO
  /\ csk_saved_mods = 0
  /\ active_key = kNone
  /\ csk_shifted = FALSE

\* No complement looked up yet.
NoAlt == [by |-> "none", keycode |-> KC_NO]

\* The statics as initialized, no key down, nothing observed yet.
AtRest ==
  /\ polls = 0
  /\ matrix = {}
  /\ tapcnt = [k \in Keys |-> 0]
  /\ mods = 0
  /\ tap_hold_keycode = KC_NO
  /\ tap_hold_record = NoRecord
  /\ hold_timer = 0
  /\ hold_mods = 0
  /\ hold_layer = 0
  /\ RepInit
  /\ alt = NoAlt
  /\ SelInit
  /\ CskInit
  /\ out = <<>>
  /\ last = NoKey
  /\ solo = "none"
  /\ holds = [kc \in GhostKeycodes |-> 0]
  /\ taps = [kc \in GhostKeycodes |-> 0]
  /\ phrase = "start"
  /\ chorded = {}
  /\ nesting = NoCalls
  /\ state_history = [i \in 1..HISTORY_SIZE |-> 0]
  /\ suppress_key = KC_NO
  /\ run = NoRun

\* Power-up, but for user_chord and the state of sentence_case.c.
PowerUp ==
  /\ timer = 0
  /\ settled = FALSE
  /\ layer_state = 0
  /\ AtRest

\* Power-up, but for user_chord.
Boot == PowerUp /\ SenInit /\ restore_late = FALSE

\* Achordion with the default achordion_chord().  On the keys of AchKeys the
\* keymap's achordion_chord() decides as the default one does: none of them
\* is in a thumb row, and HOME_A's exception needs HOME_U.
Init == Boot /\ user_chord = FALSE

KeyPress == \E k \in AchKeys : \E c \in TapCounts(k) : PressKey(k, c)
KeyRelease == \E k \in AchKeys : ReleaseKey(k)
Scan == MatrixScan(Tick)

Next == KeyPress \/ KeyRelease \/ Scan

Spec == Init /\ [][Next]_vars

\* RepeatSpec: the same handlers, fed the Repeat and Alternate Repeat keys.
RepeatKeyPress ==
  \E k \in RepKeys : \E c \in TapCounts(k) :
    /\ k = "REP" => repeat_counter < MaxRepeats
    /\ PressKey(k, c)
RepeatKeyRelease == \E k \in RepKeys : ReleaseKey(k)
RepeatScan == polls < MaxRepeatPolls /\ MatrixScan(Tick)

RepeatNext == RepeatKeyPress \/ RepeatKeyRelease \/ RepeatScan

\* The keymap that defines the Repeat keys defines achordion_chord() too.
RepeatInit == Boot /\ user_chord = TRUE

RepeatSpec == RepeatInit /\ [][RepeatNext]_vars

\* CountSpec: LEFT and the two triggers, tapped one key at a time, up to
\* MaxCount presses of the Repeat key in a row.
CountKeys == {"LEFT", "REP", "REV"}

CountKeyPress ==
  \E k \in CountKeys :
    /\ matrix = {}
    /\ k = "REP" => repeat_counter < MaxCount
    /\ PressKey(k, 0)
CountKeyRelease == \E k \in CountKeys : ReleaseKey(k)

CountNext == CountKeyPress \/ CountKeyRelease

CountInit == Boot /\ user_chord = TRUE

CountSpec == CountInit /\ [][CountNext]_vars

\* ReplaySpec: the Repeat key with a layer-tap key, pressed as held and as
\* tapped, and a Shift key; key events only.
ReplayKeys == {"A", "LEFT", "LSFT", "REP"}

ReplayKeyPress ==
  \E k \in ReplayKeys : \E c \in TapCounts(k) :
    /\ k = "REP" => repeat_counter < MaxRepeats
    /\ PressKey(k, c)
ReplayKeyRelease == \E k \in ReplayKeys : ReleaseKey(k)

ReplayNext == ReplayKeyPress \/ ReplayKeyRelease

ReplayInit == Boot /\ user_chord = TRUE

ReplaySpec == ReplayInit /\ [][ReplayNext]_vars

\* HeldSpec: the two triggers with two eligible keys, one with an alternate
\* (LEFT) and one without (K), so that the remembered key can change while a
\* trigger is held; key events only.
HeldKeys == {"LEFT", "K", "REP", "REV"}

HeldKeyPress ==
  \E k \in HeldKeys :
    /\ k = "REP" => repeat_counter < MaxRepeats
    /\ PressKey(k, 0)
HeldKeyRelease == \E k \in HeldKeys : ReleaseKey(k)

HeldNext == HeldKeyPress \/ HeldKeyRelease

HeldInit == Boot /\ user_chord = TRUE

HeldSpec == HeldInit /\ [][HeldNext]_vars

----------------------------------------------------------------------------
(* The Alternate Repeat callback of the keymap (getreuer.c). *)

KC_TRNS == 1
KC_E == 8
KC_I == 12
KC_N == 17
KC_O == 18
KC_ENT == 40
KC_TAB == 43
KC_SPC == 44
KC_QUOT == 52
KC_WH_U == 217
KC_WH_D == 218
QK_LSFT == 512                      \* 0x0200
QK_LALT == 1024                     \* 0x0400
MOD_LALT == 4
MOD_BIT_LALT == MOD_BIT(KC_LCTL + 2)
MOD_MASK_SHIFT == BitOr(MOD_BIT(KC_LSFT), MOD_BIT(KC_LSFT + 4))
NUM == 3

S(kc) == BitOr(QK_LSFT, kc)
A(kc) == BitOr(QK_LALT, kc)

\* enum custom_keycodes
SELWBAK == SAFE_RANGE + 7
SELWFWD == SAFE_RANGE + 8
M_ION == SAFE_RANGE + 18
M_THE == SAFE_RANGE + 22

\* Home row mods of the Magic Sturdy layout.
HRM_N == LT(NUM, KC_N)
HRM_I == MT(MOD_LALT, KC_I)

\* The keycodes the callback is modelled on: every case of its switches
\* for one of these keycodes is below.
AltKeycodes ==
  {KC_LEFT, KC_RGHT, KC_WH_U, KC_WH_D, SELWBAK, SELWFWD,
   KC_U, KC_O, KC_N, KC_SPC, HRM_N, HRM_I}

\* The modifier states a key is remembered with: none, Left Ctrl, Left
\* Shift, Left Alt, Left Shift + Left Alt, Right Shift.
AltMods == {0, 1, 2, 4, 6, 32}

get_alt_repeat_key_keycode_user_stuck(keycode, m) ==
  LET others ==
        CASE keycode = KC_WH_U -> KC_WH_D
          [] keycode = KC_WH_D -> KC_WH_D
          [] keycode = SELWBAK -> SELWFWD
          [] keycode = SELWFWD -> SELWBAK
          [] OTHER -> KC_TRNS
  IN  IF m = MOD_BIT_LALT
        THEN CASE keycode = KC_U -> A(KC_O)
               [] keycode = KC_O -> A(KC_U)
               [] keycode = HRM_N -> A(KC_I)
               [] keycode = HRM_I -> A(KC_N)
               [] OTHER -> others
      ELSE IF BitClear(m, MOD_MASK_SHIFT) = 0
        THEN CASE keycode \in {KC_SPC, KC_ENT, KC_TAB} -> M_THE
               [] keycode = HRM_N ->
                    IF BitAnd(m, MOD_MASK_SHIFT) = 0 THEN S(KC_N) ELSE KC_N
               [] keycode = KC_N -> KC_N
               [] keycode = KC_O -> KC_A
               [] keycode = KC_U -> KC_E
               [] keycode = HRM_I ->
                    IF BitAnd(m, MOD_MASK_SHIFT) = 0 THEN M_ION ELSE KC_QUOT
               [] OTHER -> others
      ELSE others

\* A switch that has no case for the keycode falls out of its if branch
\* into the last switch (`others`).
get_alt_repeat_key_keycode_user(keycode, m) ==
  LET others ==
        CASE keycode = KC_WH_U -> KC_WH_D
          [] keycode = KC_WH_D -> KC_WH_U
          [] keycode = SELWBAK -> SELWFWD
          [] keycode = SELWFWD -> SELWBAK
          [] OTHER -> KC_TRNS
  IN  IF m = MOD_BIT_LALT
        THEN CASE keycode = KC_U -> A(KC_O)
               [] keycode = KC_O -> A(KC_U)
               [] keycode = HRM_N -> A(KC_I)
               [] keycode = HRM_I -> A(KC_N)
               [] OTHER -> others
      ELSE IF BitClear(m, MOD_MASK_SHIFT) = 0
        THEN CASE keycode \in {KC_SPC, KC_ENT, KC_TAB} -> M_THE
               [] keycode = HRM_N ->
                    IF BitAnd(m, MOD_MASK_SHIFT) = 0 THEN S(KC_N) ELSE KC_N
               [] keycode = KC_N -> KC_N
               [] keycode = KC_O -> KC_A
               [] keycode = KC_U -> KC_E
               [] keycode = HRM_I ->
                    IF BitAnd(m, MOD_MASK_SHIFT) = 0 THEN M_ION ELSE KC_QUOT
               [] OTHER -> others
      ELSE others

\* AltSpec: a key is remembered with the modifiers held at its press, and
\* its complement is looked up by the callback of the keymap or in the table
\* of rev_repeat_key_keycode().
AltRecord == [NoRecord EXCEPT !.pressed = TRUE, !.time = 1, !.count = 1]

AltRemember ==
  \E keycode \in AltKeycodes : \E m \in AltMods :
    LET st == remember_key_press([Cur EXCEPT !.mods = m], keycode, AltRecord)
    IN  /\ mods' = m
        /\ last_record' = st.last_record
        /\ last_layer_state' = st.last_layer_state
        /\ last_keycode' = st.last_keycode
        /\ last_mods' = st.last_mods
        /\ repeat_counter' = st.repeat_counter
        /\ alt' = NoAlt
        /\ UNCHANGED <<timer, polls, matrix, tapcnt, layer_state, user_chord,
                       achVars, recursing, weak_mods, registered, senVars,
                       selVars, cskVars, out, last, solo, holds, taps, phrase,
                       chorded, nesting, run>>

AltLookup(by, keycode) ==
  /\ ~IS_NOEVENT(last_record)
  /\ alt' = [by |-> by, keycode |-> keycode]
  /\ UNCHANGED <<timer, polls, matrix, tapcnt, mods, layer_state, user_chord,
                 achVars, repVars, senVars, selVars, cskVars, out, last, solo,
                 holds, taps, phrase, chorded, nesting, run>>

AltUser ==
  AltLookup("user", get_alt_repeat_key_keycode_user(last_keycode, last_mods))
AltRev == AltLookup("rev", rev_repeat_key_keycode(Cur))

AltNext == AltRemember \/ AltUser \/ AltRev

AltInit == Boot /\ user_chord = TRUE

AltSpec == AltInit /\ [][AltNext]_vars

----------------------------------------------------------------------------
(* features/sentence_case.c *)

KC_C == 6
KC_V == 25
KC_1 == 30
KC_DOT == 55
KC_SLSH == 56
KC_RSFT == 229
MOD_LSFT == 2
KC_QUES == S(KC_SLSH)
KC_EXLM == S(KC_1)
OSM(mod) == BitOr(QK_ONE_SHOT_MOD, mod)

\* sentence_case_primed() is the empty default.
set_sentence_state(st, new_state) == [st EXCEPT !.sentence_state = new_state]

sentence_case_task(st) ==
  IF st.sentence_state # 0 /\ timer_expired(st.timer, st.idle_timer)
    THEN set_sentence_state(st, STATE_INIT)
    ELSE st

sentence_case_is_letter(keycode) == KC_A <= keycode /\ keycode <= KC_Z

\* No one-shot mods in the model: get_mods() | get_oneshot_mods() is st.mods.
sentence_case_is_punct(st, keycode) ==
  LET shifted == BitAnd(st.mods, MOD_MASK_SHIFT) # 0
  IN  CASE keycode = KC_DOT -> ~shifted
        [] keycode \in {KC_1, KC_SLSH} -> shifted
        [] keycode \in {KC_QUES, KC_EXLM} -> TRUE
        [] OTHER -> FALSE

\* The last Len(pattern) keys of the buffer are the pattern.
sentence_case_just_typed(buf, pattern) ==
  \A i \in 1..Len(pattern) :
    buf[SENTENCE_CASE_BUFFER_SIZE - Len(pattern) + i] = pattern[i]

sentence_case_check_ending(buf) ==
  ~ \/ sentence_case_just_typed(buf, <<KC_SPC, KC_V, KC_S, KC_DOT>>)
    \/ sentence_case_just_typed(buf, <<KC_SPC, KC_E, KC_T, KC_C, KC_DOT>>)

register_weak_mods(st, m) ==
  Log([st EXCEPT !.weak_mods = BitOr(@, m)], "register_weak_mods", KC_NO, m,
      TRUE)

\* The handler always returns true; the result is the state it leaves.
process_sentence_case_unchecked(st, keycode0, rec) ==
  LET m == st.mods
      ignored ==
        \/ QK_MOMENTARY <= keycode0 /\ keycode0 <= QK_MOMENTARY_MAX
        \/ QK_TO <= keycode0 /\ keycode0 <= QK_TO_MAX
        \/ QK_TOGGLE_LAYER <= keycode0 /\ keycode0 <= QK_TOGGLE_LAYER_MAX
        \/ QK_LAYER_TAP_TOGGLE <= keycode0
             /\ keycode0 <= QK_LAYER_TAP_TOGGLE_MAX
        \/ QK_ONE_SHOT_LAYER <= keycode0 /\ keycode0 <= QK_ONE_SHOT_LAYER_MAX
        \/ keycode0 \in {KC_LSFT, KC_RSFT, OSM(MOD_LSFT), OSM(MOD_RSFT)}
      taphold == IsModTap(keycode0) \/ IsLayerTap(keycode0)
      keycode == IF taphold THEN keycode0 % 256 ELSE keycode0
      s == st.sentence_state
      new_state ==
        IF keycode = KC_SPC
          THEN IF s = STATE_PRIMED \/ s = STATE_ENDING
                 THEN STATE_PRIMED ELSE STATE_INIT
        ELSE IF sentence_case_is_letter(keycode)
          THEN IF s <= STATE_MATCHED THEN STATE_WORD
               ELSE IF s = STATE_PRIMED THEN STATE_MATCHED
               ELSE STATE_ABBREV
        ELSE IF sentence_case_is_punct(st, keycode)
          THEN IF s = STATE_WORD \/ s = STATE_MATCHED
                 THEN IF sentence_case_check_ending(st.buffer)
                        THEN STATE_ENDING ELSE STATE_INIT
               ELSE IF s = STATE_ABBREV THEN STATE_ABBREV
               ELSE STATE_INIT
        ELSE STATE_INIT
      shift == keycode # KC_SPC /\ sentence_case_is_letter(keycode)
                 /\ s = STATE_PRIMED /\ BitAnd(m, MOD_MASK_SHIFT) = 0
      s1 == IF shift THEN register_weak_mods(st, MOD_BIT(KC_LSFT)) ELSE st
      s2 == [s1 EXCEPT
               !.buffer = [i \in 1..SENTENCE_CASE_BUFFER_SIZE |->
                             IF i < SENTENCE_CASE_BUFFER_SIZE
                               THEN st.buffer[i + 1] ELSE keycode],
               !.idle_timer = (rec.time + SENTENCE_CASE_TIMEOUT) % TimerModulus]
  IN  IF ~rec.pressed THEN st
      ELSE IF BitClear(m, BitOr(MOD_MASK_SHIFT, MOD_BIT(KC_RALT))) # 0
        THEN set_sentence_state(st, STATE_INIT)
      ELSE IF ignored THEN st
      ELSE IF taphold /\ rec.count = 0 THEN st
      ELSE set_sentence_state(s2, new_state)

process_sentence_case_plain(st, keycode0, rec) ==
  LET m == st.mods
      ignored ==
        \/ QK_MOMENTARY <= keycode0 /\ keycode0 <= QK_MOMENTARY_MAX
        \/ QK_TO <= keycode0 /\ keycode0 <= QK_TO_MAX
        \/ QK_TOGGLE_LAYER <= keycode0 /\ keycode0 <= QK_TOGGLE_LAYER_MAX
        \/ QK_LAYER_TAP_TOGGLE <= keycode0
             /\ keycode0 <= QK_LAYER_TAP_TOGGLE_MAX
        \/ QK_ONE_SHOT_LAYER <= keycode0 /\ keycode0 <= QK_ONE_SHOT_LAYER_MAX
        \/ keycode0 \in {KC_LSFT, KC_RSFT, OSM(MOD_LSFT), OSM(MOD_RSFT)}
      taphold == IsModTap(keycode0) \/ IsLayerTap(keycode0)
      keycode == IF taphold THEN keycode0 % 256 ELSE keycode0
      s == st.sentence_state
      new_state ==
        IF keycode = KC_SPC
          THEN IF s = STATE_PRIMED
                    \/ (s = STATE_ENDING
                          /\ sentence_case_check_ending(st.buffer))
                 THEN STATE_PRIMED ELSE STATE_INIT
        ELSE IF sentence_case_is_letter(keycode)
          THEN IF s <= STATE_MATCHED THEN STATE_WORD
               ELSE IF s = STATE_PRIMED THEN STATE_MATCHED
               ELSE STATE_ABBREV
        ELSE IF sentence_case_is_punct(st, keycode)
          THEN IF s = STATE_WORD \/ s = STATE_MATCHED
                 THEN IF sentence_case_check_ending(st.buffer)
                        THEN STATE_ENDING ELSE STATE_INIT
               ELSE IF s = STATE_ABBREV THEN STATE_ABBREV
               ELSE STATE_INIT
        ELSE STATE_INIT
      shift == FALSE
      s1 == IF shift THEN register_weak_mods(st, MOD_BIT(KC_LSFT)) ELSE st
      s2 == [s1 EXCEPT
               !.buffer = [i \in 1..SENTENCE_CASE_BUFFER_SIZE |->
                             IF i < SENTENCE_CASE_BUFFER_SIZE
                               THEN st.buffer[i + 1] ELSE keycode],
               !.idle_timer = (rec.time + SENTENCE_CASE_TIMEOUT) % TimerModulus]
  IN  IF ~rec.pressed THEN st
      ELSE IF BitClear(m, BitOr(MOD_MASK_SHIFT, MOD_BIT(KC_RALT))) # 0
        THEN set_sentence_state(st, STATE_INIT)
      ELSE IF ignored THEN st
      ELSE IF taphold /\ rec.count = 0 THEN st
      ELSE set_sentence_state(s2, new_state)

process_sentence_case_always(st, keycode0, rec) ==
  LET m == st.mods
      ignored ==
        \/ QK_MOMENTARY <= keycode0 /\ keycode0 <= QK_MOMENTARY_MAX
        \/ QK_TO <= keycode0 /\ keycode0 <= QK_TO_MAX
        \/ QK_TOGGLE_LAYER <= keycode0 /\ keycode0 <= QK_TOGGLE_LAYER_MAX
        \/ QK_LAYER_TAP_TOGGLE <= keycode0
             /\ keycode0 <= QK_LAYER_TAP_TOGGLE_MAX
        \/ QK_ONE_SHOT_LAYER <= keycode0 /\ keycode0 <= QK_ONE_SHOT_LAYER_MAX
        \/ keycode0 \in {KC_LSFT, KC_RSFT, OSM(MOD_LSFT), OSM(MOD_RSFT)}
      taphold == IsModTap(keycode0) \/ IsLayerTap(keycode0)
      keycode == IF taphold THEN keycode0 % 256 ELSE keycode0
      s == st.sentence_state
      new_state ==
        IF keycode = KC_SPC
          THEN IF s = STATE_PRIMED
                    \/ (s = STATE_ENDING
                          /\ sentence_case_check_ending(st.buffer))
                 THEN STATE_PRIMED ELSE STATE_INIT
        ELSE IF sentence_case_is_letter(keycode)
          THEN IF s <= STATE_MATCHED THEN STATE_WORD
               ELSE IF s = STATE_PRIMED THEN STATE_MATCHED
               ELSE STATE_ABBREV
        ELSE IF sentence_case_is_punct(st, keycode)
          THEN IF s = STATE_WORD \/ s = STATE_MATCHED
                 THEN IF sentence_case_check_ending(st.buffer)
                        THEN STATE_ENDING ELSE STATE_INIT
               ELSE IF s = STATE_ABBREV THEN STATE_ABBREV
               ELSE STATE_INIT
        ELSE STATE_INIT
      shift == keycode # KC_SPC /\ sentence_case_is_letter(keycode)
                 /\ BitAnd(m, MOD_MASK_SHIFT) = 0
      s1 == IF shift THEN register_weak_mods(st, MOD_BIT(KC_LSFT)) ELSE st
      s2 == [s1 EXCEPT
               !.buffer = [i \in 1..SENTENCE_CASE_BUFFER_SIZE |->
                             IF i < SENTENCE_CASE_BUFFER_SIZE
                               THEN st.buffer[i + 1] ELSE keycode],
               !.idle_timer = (rec.time + SENTENCE_CASE_TIMEOUT) % TimerModulus]
  IN  IF ~rec.pressed THEN st
      ELSE IF BitClear(m, BitOr(MOD_MASK_SHIFT, MOD_BIT(KC_RALT))) # 0
        THEN set_sentence_state(st, STATE_INIT)
      ELSE IF ignored THEN st
      ELSE IF taphold /\ rec.count = 0 THEN st
      ELSE set_sentence_state(s2, new_state)

process_sentence_case_enter(st, keycode0, rec) ==
  LET m == st.mods
      ignored ==
        \/ QK_MOMENTARY <= keycode0 /\ keycode0 <= QK_MOMENTARY_MAX
        \/ QK_TO <= keycode0 /\ keycode0 <= QK_TO_MAX
        \/ QK_TOGGLE_LAYER <= keycode0 /\ keycode0 <= QK_TOGGLE_LAYER_MAX
        \/ QK_LAYER_TAP_TOGGLE <= keycode0
             /\ keycode0 <= QK_LAYER_TAP_TOGGLE_MAX
        \/ QK_ONE_SHOT_LAYER <= keycode0 /\ keycode0 <= QK_ONE_SHOT_LAYER_MAX
        \/ keycode0 \in {KC_LSFT, KC_RSFT, OSM(MOD_LSFT), OSM(MOD_RSFT)}
      taphold == IsModTap(keycode0) \/ IsLayerTap(keycode0)
      keycode == IF taphold THEN keycode0 % 256 ELSE keycode0
      s == st.sentence_state
      new_state ==
        IF keycode \in {KC_SPC, KC_ENT, KC_TAB}
          THEN IF s = STATE_PRIMED
                    \/ (s = STATE_ENDING
                          /\ sentence_case_check_ending(st.buffer))
                 THEN STATE_PRIMED ELSE STATE_INIT
        ELSE IF sentence_case_is_letter(keycode)
          THEN IF s <= STATE_MATCHED THEN STATE_WORD
               ELSE IF s = STATE_PRIMED THEN STATE_MATCHED
               ELSE STATE_ABBREV
        ELSE IF sentence_case_is_punct(st, keycode)
          THEN IF s = STATE_WORD \/ s = STATE_MATCHED
                 THEN IF sentence_case_check_ending(st.buffer)
                        THEN STATE_ENDING ELSE STATE_INIT
               ELSE IF s = STATE_ABBREV THEN STATE_ABBREV
               ELSE STATE_INIT
        ELSE STATE_INIT
      shift == keycode # KC_SPC /\ sentence_case_is_letter(keycode)
                 /\ s = STATE_PRIMED /\ BitAnd(m, MOD_MASK_SHIFT) = 0
      s1 == IF shift THEN register_weak_mods(st, MOD_BIT(KC_LSFT)) ELSE st
      s2 == [s1 EXCEPT
               !.buffer = [i \in 1..SENTENCE_CASE_BUFFER_SIZE |->
                             IF i < SENTENCE_CASE_BUFFER_SIZE
                               THEN st.buffer[i + 1] ELSE keycode],
               !.idle_timer = (rec.time + SENTENCE_CASE_TIMEOUT) % TimerModulus]
  IN  IF ~rec.pressed THEN st
      ELSE IF BitClear(m, BitOr(MOD_MASK_SHIFT, MOD_BIT(KC_RALT))) # 0
        THEN set_sentence_state(st, STATE_INIT)
      ELSE IF ignored THEN st
      ELSE IF taphold /\ rec.count = 0 THEN st
      ELSE set_sentence_state(s2, new_state)

process_sentence_case_mods(st, keycode0, rec) ==
  LET m == st.mods
      ignored ==
        \/ QK_MOMENTARY <= keycode0 /\ keycode0 <= QK_MOMENTARY_MAX
        \/ QK_TO <= keycode0 /\ keycode0 <= QK_TO_MAX
        \/ QK_TOGGLE_LAYER <= keycode0 /\ keycode0 <= QK_TOGGLE_LAYER_MAX
        \/ QK_LAYER_TAP_TOGGLE <= keycode0
             /\ keycode0 <= QK_LAYER_TAP_TOGGLE_MAX
        \/ QK_ONE_SHOT_LAYER <= keycode0 /\ keycode0 <= QK_ONE_SHOT_LAYER_MAX
        \/ keycode0 \in {KC_LSFT, KC_RSFT, OSM(MOD_LSFT), OSM(MOD_RSFT)}
        \/ IS_MODIFIER_KEYCODE(keycode0)
      taphold == IsModTap(keycode0) \/ IsLayerTap(keycode0)
      keycode == IF taphold THEN keycode0 % 256 ELSE keycode0
      s == st.sentence_state
      new_state ==
        IF keycode = KC_SPC
          THEN IF s = STATE_PRIMED
                    \/ (s = STATE_ENDING
                          /\ sentence_case_check_ending(st.buffer))
                 THEN STATE_PRIMED ELSE STATE_INIT
        ELSE IF sentence_case_is_letter(keycode)
          THEN IF s <= STATE_MATCHED THEN STATE_WORD
               ELSE IF s = STATE_PRIMED THEN STATE_MATCHED
               ELSE STATE_ABBREV
        ELSE IF sentence_case_is_punct(st, keycode)
          THEN IF s = STATE_WORD \/ s = STATE_MATCHED
                 THEN IF sentence_case_check_ending(st.buffer)
                        THEN STATE_ENDING ELSE STATE_INIT
               ELSE IF s = STATE_ABBREV THEN STATE_ABBREV
               ELSE STATE_INIT
        ELSE STATE_INIT
      shift == keycode # KC_SPC /\ sentence_case_is_letter(keycode)
                 /\ s = STATE_PRIMED /\ BitAnd(m, MOD_MASK_SHIFT) = 0
      s1 == IF shift THEN register_weak_mods(st, MOD_BIT(KC_LSFT)) ELSE st
      s2 == [s1 EXCEPT
               !.buffer = [i \in 1..SENTENCE_CASE_BUFFER_SIZE |->
                             IF i < SENTENCE_CASE_BUFFER_SIZE
                               THEN st.buffer[i + 1] ELSE keycode],
               !.idle_timer = (rec.time + SENTENCE_CASE_TIMEOUT) % TimerModulus]
  IN  IF ~rec.pressed THEN st
      ELSE IF BitClear(m, BitOr(MOD_MASK_SHIFT, MOD_BIT(KC_RALT))) # 0
        THEN set_sentence_state(st, STATE_INIT)
      ELSE IF ignored THEN st
      ELSE IF taphold /\ rec.count = 0 THEN st
      ELSE set_sentence_state(s2, new_state)

process_sentence_case(st, keycode0, rec) ==
  LET m == st.mods
      ignored ==
        \/ QK_MOMENTARY <= keycode0 /\ keycode0 <= QK_MOMENTARY_MAX
        \/ QK_TO <= keycode0 /\ keycode0 <= QK_TO_MAX
        \/ QK_TOGGLE_LAYER <= keycode0 /\ keycode0 <= QK_TOGGLE_LAYER_MAX
        \/ QK_LAYER_TAP_TOGGLE <= keycode0
             /\ keycode0 <= QK_LAYER_TAP_TOGGLE_MAX
        \/ QK_ONE_SHOT_LAYER <= keycode0 /\ keycode0 <= QK_ONE_SHOT_LAYER_MAX
        \/ keycode0 \in {KC_LSFT, KC_RSFT, OSM(MOD_LSFT), OSM(MOD_RSFT)}
      taphold == IsModTap(keycode0) \/ IsLayerTap(keycode0)
      keycode == IF taphold THEN keycode0 % 256 ELSE keycode0
      s == st.sentence_state
      new_state ==
        IF keycode = KC_SPC
          THEN IF s = STATE_PRIMED
                    \/ (s = STATE_ENDING
                          /\ sentence_case_check_ending(st.buffer))
                 THEN STATE_PRIMED ELSE STATE_INIT
        ELSE IF sentence_case_is_letter(keycode)
          THEN IF s <= STATE_MATCHED THEN STATE_WORD
               ELSE IF s = STATE_PRIMED THEN STATE_MATCHED
               ELSE STATE_ABBREV
        ELSE IF sentence_case_is_punct(st, keycode)
          THEN IF s = STATE_WORD \/ s = STATE_MATCHED
                 THEN IF sentence_case_check_ending(st.buffer)
                        THEN STATE_ENDING ELSE STATE_INIT
               ELSE IF s = STATE_ABBREV THEN STATE_ABBREV
               ELSE STATE_INIT
        ELSE STATE_INIT
      shift == keycode # KC_SPC /\ sentence_case_is_letter(keycode)
                 /\ s = STATE_PRIMED /\ BitAnd(m, MOD_MASK_SHIFT) = 0
      s1 == IF shift THEN register_weak_mods(st, MOD_BIT(KC_LSFT)) ELSE st
      s2 == [s1 EXCEPT
               !.buffer = [i \in 1..SENTENCE_CASE_BUFFER_SIZE |->
                             IF i < SENTENCE_CASE_BUFFER_SIZE
                               THEN st.buffer[i + 1] ELSE keycode],
               !.idle_timer = (rec.time + SENTENCE_CASE_TIMEOUT) % TimerModulus]
  IN  IF ~rec.pressed THEN st
      ELSE IF BitClear(m, BitOr(MOD_MASK_SHIFT, MOD_BIT(KC_RALT))) # 0
        THEN set_sentence_state(st, STATE_INIT)
      ELSE IF ignored THEN st
      ELSE IF taphold /\ rec.count = 0 THEN st
      ELSE set_sentence_state(s2, new_state)

\* Observation of Sentence Case.  The key event of the step that left the
\* log o.
KeyEvent(o) == o[CHOOSE i \in DOMAIN o : o[i].op = "default"]
IsKeyEvent(o) == \E i \in DOMAIN o : o[i].op = "default"

\* The logical key of a keycode: the tap keycode of a tap-hold key.
Logical(kc) == IF IsModTap(kc) \/ IsLayerTap(kc) THEN kc % 256 ELSE kc

\* The presses the state machine classifies: all but Shift keys and tap-hold
\* keys pressed as held.
Ignored(kc) ==
  \/ kc \in {KC_LSFT, KC_RSFT, OSM(MOD_LSFT), OSM(MOD_RSFT)}
  \/ QK_MOMENTARY <= kc /\ kc <= QK_MOMENTARY_MAX
  \/ QK_TO <= kc /\ kc <= QK_TO_MAX
  \/ QK_TOGGLE_LAYER <= kc /\ kc <= QK_TOGGLE_LAYER_MAX
  \/ QK_LAYER_TAP_TOGGLE <= kc /\ kc <= QK_LAYER_TAP_TOGGLE_MAX
  \/ QK_ONE_SHOT_LAYER <= kc /\ kc <= QK_ONE_SHOT_LAYER_MAX

Classified(e) ==
  /\ e.pressed
  /\ ~Ignored(e.kc)
  /\ (IsModTap(e.kc) \/ IsLayerTap(e.kc)) => e.arg # 0

\* The class of a classified press, given the state before it.
ClassOf(e) ==
  LET kc == Logical(e.kc)
  IN  CASE kc = KC_SPC -> "SPACE"
        [] kc \in KC_A..KC_Z -> "LETTER"
        [] kc # KC_SPC /\ kc \notin KC_A..KC_Z
             /\ sentence_case_is_punct(Cur, kc) -> "PUNCT"
        [] OTHER -> "OTHER"

OnlyShiftOrAltGr ==
  BitClear(mods, BitOr(MOD_MASK_SHIFT, MOD_BIT(KC_RALT))) = 0

\* The progress of the typed text through "a word of letters, a punctuation
\* key, one or more Spaces", from a moment the machine is in INIT: "start",
\* "word", "end", "gap"; "abbr" when a letter followed the punctuation key
\* (as in "a.a."), and "none" when the text is something else.  p is the
\* progress before the step, s1 the state of the machine after it.
Restart(s1) == IF s1 = STATE_INIT THEN "start" ELSE "none"

PhraseAfterKey(p, e, s1) ==
  IF ~e.pressed THEN p
  ELSE IF ~OnlyShiftOrAltGr THEN Restart(s1)
  ELSE IF ~Classified(e) THEN p
  ELSE LET c == ClassOf(e)
       IN  CASE c = "LETTER" /\ p \in {"start", "word"} -> "word"
             [] c = "PUNCT" /\ p = "word" -> "end"
             [] c = "LETTER" /\ p \in {"end", "abbr"} -> "abbr"
             [] c = "PUNCT" /\ p = "abbr" -> "abbr"
             [] c = "SPACE" /\ p \in {"end", "gap"} -> "gap"
             [] OTHER -> Restart(s1)

\* An idle timeout starts the text over.
PhraseAfterScan(p, s0, s1) == IF s1 # s0 THEN Restart(s1) ELSE p

\* SentenceSpec: process_sentence_case() fed two letters (S is a mod-tap
\* key, Left Alt when held, pressed as held and as tapped), the period,
\* Space and a Shift key, and sentence_case_task() run by the matrix scans.
HRM_S == MT(MOD_LALT, KC_S)
FUN == 5
OSL(layer) == QK_ONE_SHOT_LAYER + (layer % 32)

SentenceKeycode ==
  [V |-> KC_V, S |-> HRM_S, DOT |-> KC_DOT, SPC |-> KC_SPC, LSFT |-> KC_LSFT,
   ENT |-> KC_ENT, TAB |-> KC_TAB, LCTL |-> KC_LCTL, OSL |-> OSL(FUN)]
SentenceKeys == {"V", "S", "DOT", "SPC", "LSFT"}
SentenceTapCounts(k) == IF k = "S" THEN {0, 1} ELSE {0}

\* The keys that hold a modifier while they are down: the Shift key, and S
\* when pressed as held (S is the only source of Left Alt).
SentenceHolding ==
  {k \in matrix : k = "LSFT" \/ (k = "S" /\ BitAnd(mods, MOD_BIT_LALT) # 0)}

\* The default handling of an event the handler let through: a held mod-tap
\* key and a modifier key register their modifier.
SentenceDefault(st, keycode, rec) ==
  IF IsModTap(keycode) /\ rec.count = 0
    THEN LET m4 == (keycode \div 256) % 16
             m  == IF (keycode \div 4096) % 2 = 1 THEN (m4 * 16) % 256 ELSE m4
             s1 == Log(st, "default", keycode, rec.count, rec.pressed)
         IN  IF rec.pressed THEN register_mods(s1, m)
             ELSE unregister_mods(s1, m)
    ELSE DefaultAction(st, keycode, rec)

SentenceEvent(k, pressed, c) ==
  LET rec == [row |-> 0, col |-> 0, pressed |-> pressed,
              time |-> EventTime(timer), count |-> c]
      keycode == SentenceKeycode[k]
  IN  /\ \E st \in {SentenceDefault(process_sentence_case(Cur, keycode, rec),
                                    keycode, rec)} :
           /\ Commit(st)
           /\ phrase' = PhraseAfterKey(phrase, KeyEvent(st.out),
                                       st.sentence_state)
      /\ UNCHANGED <<polls, tapcnt, last, solo, holds, taps, chorded>>

SentencePress ==
  \E k \in SentenceKeys : \E c \in SentenceTapCounts(k) :
    /\ k \notin matrix
    \* the keys that type are tapped one at a time
    /\ matrix = SentenceHolding
    /\ buffer[SENTENCE_CASE_BUFFER_SIZE - MaxTyped + 1] = KC_NO
    /\ matrix' = matrix \cup {k}
    /\ SentenceEvent(k, TRUE, c)

SentenceRelease ==
  \E k \in matrix :
    /\ matrix' = matrix \ {k}
    /\ SentenceEvent(k, FALSE, IF k = "S" /\ k \notin SentenceHolding
                                 THEN 1 ELSE 0)

\* A matrix scan, SentenceTick milliseconds after the previous one, while no
\* key is down.  The scans that find the machine in INIT do nothing but
\* advance the clock, and are left out.
SentenceScan ==
  /\ polls < MaxSentencePolls
  /\ matrix = {}
  /\ sentence_state # STATE_INIT
  /\ polls' = polls + 1
  /\ \E st \in {sentence_case_task(
                  [Cur EXCEPT !.timer = (timer + SentenceTick) % TimerModulus])} :
       /\ Commit(st)
       /\ phrase' = PhraseAfterScan(phrase, sentence_state, st.sentence_state)
  /\ UNCHANGED <<matrix, tapcnt, last, solo, holds, taps, chorded>>

SentenceNext == SentencePress \/ SentenceRelease \/ SentenceScan

\* The static state of sentence_case.c after Space was tapped at power-up.
SenSpaced ==
  /\ sentence_state = STATE_INIT
  /\ buffer = [i \in 1..SENTENCE_CASE_BUFFER_SIZE |->
                IF i < SENTENCE_CASE_BUFFER_SIZE THEN KC_NO ELSE KC_SPC]
  /\ idle_timer = EventTime(0) + SENTENCE_CASE_TIMEOUT

\* A behaviour starts at power-up, or with that Space typed.
SentenceInit ==
  PowerUp /\ user_chord = TRUE /\ restore_late = FALSE
    /\ (SenInit \/ SenSpaced)

SentenceSpec == SentenceInit /\ [][SentenceNext]_vars

\* PlainSpec: process_sentence_case() fed a letter, the period, Space, Enter
\* and Tab, tapped one at a time from power-up with no modifier.
PlainKeys == {"V", "DOT", "SPC", "ENT", "TAB"}

PlainPress ==
  \E k \in PlainKeys :
    /\ matrix = {}
    /\ buffer[SENTENCE_CASE_BUFFER_SIZE - MaxPlain + 1] = KC_NO
    /\ matrix' = matrix \cup {k}
    /\ SentenceEvent(k, TRUE, 0)

PlainNext == PlainPress \/ SentenceRelease

PlainInit == Boot /\ user_chord = TRUE

PlainSpec == PlainInit /\ [][PlainNext]_vars

\* ModifierSpec: process_sentence_case() fed the Shift and Ctrl keys, a
\* one-shot layer key and a mod-tap key beside a letter, the period and
\* Space.  The modifier and layer keys may be held while other keys are
\* tapped.
ModifierKeys == {"V", "S", "DOT", "SPC", "LSFT", "LCTL", "OSL"}
ModifierHolding ==
  {k \in matrix : k \in {"LSFT", "LCTL", "OSL"}} \cup SentenceHolding

ModifierPress ==
  \E k \in ModifierKeys : \E c \in SentenceTapCounts(k) :
    /\ k \notin matrix
    /\ matrix = ModifierHolding
    /\ buffer[SENTENCE_CASE_BUFFER_SIZE - MaxModified + 1] = KC_NO
    /\ matrix' = matrix \cup {k}
    /\ SentenceEvent(k, TRUE, c)

ModifierNext == ModifierPress \/ SentenceRelease

ModifierSpec == PlainInit /\ [][ModifierNext]_vars

----------------------------------------------------------------------------
(* select_word.c *)

KC_HOME == 74
KC_END == 77
KC_DOWN == 81

register_code(st, keycode) ==
  Log([st EXCEPT !.registered = @ \cup {keycode}], "register_code",
      keycode, 0, TRUE)

unregister_code(st, keycode) ==
  Log([st EXCEPT !.registered = @ \ {keycode}], "unregister_code",
      keycode, 0, FALSE)

\* tap_code(): the keycode is registered and unregistered; the log entry
\* carries the real mods the tap is sent with.
tap_code(st, keycode) ==
  Log([st EXCEPT !.registered = @ \ {keycode}], "tap_code", keycode, 0, TRUE)

clear_mods(st) == Log([st EXCEPT !.mods = 0], "clear_mods", KC_NO, 0, FALSE)

send_keyboard_report(st) == Log(st, "send_keyboard_report", KC_NO, 0, FALSE)

\* Mutant: the timeout also disables the macro before the deadline.
select_word_task_early(st) ==
  IF st.state # STATE_NONE
    THEN [st EXCEPT !.state = STATE_NONE]
    ELSE st

select_word_task(st) ==
  IF st.state # STATE_NONE /\ timer_expired(st.timer, st.select_idle_timer)
    THEN [st EXCEPT !.state = STATE_NONE]
    ELSE st

\* Mutant: a press after a selection positions the cursor again.
process_select_word_first(st, keycode, rec, sel_keycode) ==
  LET m == st.mods
      shifted == BitAnd(m, MOD_MASK_SHIFT) # 0
      s0 == [st EXCEPT !.select_idle_timer =
                         (rec.time + SELECT_WORD_TIMEOUT) % TimerModulus]
      word ==
        LET a == set_mods(s0, MOD_BIT(KC_LCTL))
            b == IF st.state \in {STATE_NONE, STATE_SELECTED}
                   THEN tap_code(tap_code(send_keyboard_report(a), KC_RGHT),
                                 KC_LEFT)
                   ELSE a
            c == register_code(register_mods(b, MOD_BIT(KC_LSFT)), KC_RGHT)
        IN  [c EXCEPT !.state = SELECT_STATE_WORD]
      line ==
        IF st.state = STATE_NONE
          THEN LET a == tap_code(send_keyboard_report(clear_mods(s0)), KC_HOME)
                   b == tap_code(register_mods(a, MOD_BIT(KC_LSFT)), KC_END)
               IN  [set_mods(b, m) EXCEPT !.state = STATE_FIRST_LINE]
          ELSE [register_code(s0, KC_DOWN) EXCEPT !.state = STATE_LINE]
      other ==
        CASE st.state = SELECT_STATE_WORD ->
               [st |-> [unregister_mods(
                          unregister_code(s0, KC_RGHT),
                          BitOr(MOD_BIT(KC_LSFT), MOD_BIT(KC_LCTL)))
                          EXCEPT !.state = STATE_SELECTED],
                ret |-> TRUE]
          [] st.state = STATE_FIRST_LINE ->
               [st |-> [s0 EXCEPT !.state = STATE_SELECTED], ret |-> TRUE]
          [] st.state = STATE_LINE ->
               [st |-> [unregister_code(s0, KC_DOWN)
                          EXCEPT !.state = STATE_SELECTED],
                ret |-> TRUE]
          [] st.state = STATE_SELECTED /\ keycode = KC_ESC ->
               [st |-> [tap_code(s0, KC_RGHT) EXCEPT !.state = STATE_NONE],
                ret |-> FALSE]
          [] OTHER ->
               [st |-> [s0 EXCEPT !.state = STATE_NONE], ret |-> TRUE]
  IN  IF keycode = KC_LSFT \/ keycode = KC_RSFT
        THEN [st |-> st, ret |-> TRUE]
      ELSE IF keycode = sel_keycode /\ rec.pressed
        THEN [st |-> IF shifted THEN line ELSE word, ret |-> FALSE]
      ELSE other

\* Mutant: Left Ctrl is registered on top of the mods that are held.
process_select_word_stacked(st, keycode, rec, sel_keycode) ==
  LET m == st.mods
      shifted == BitAnd(m, MOD_MASK_SHIFT) # 0
      s0 == [st EXCEPT !.select_idle_timer =
                         (rec.time + SELECT_WORD_TIMEOUT) % TimerModulus]
      word ==
        LET a == register_mods(s0, MOD_BIT(KC_LCTL))
            b == IF st.state = STATE_NONE
                   THEN tap_code(tap_code(send_keyboard_report(a), KC_RGHT),
                                 KC_LEFT)
                   ELSE a
            c == register_code(register_mods(b, MOD_BIT(KC_LSFT)), KC_RGHT)
        IN  [c EXCEPT !.state = SELECT_STATE_WORD]
      line ==
        IF st.state = STATE_NONE
          THEN LET a == tap_code(send_keyboard_report(clear_mods(s0)), KC_HOME)
                   b == tap_code(register_mods(a, MOD_BIT(KC_LSFT)), KC_END)
               IN  [set_mods(b, m) EXCEPT !.state = STATE_FIRST_LINE]
          ELSE [register_code(s0, KC_DOWN) EXCEPT !.state = STATE_LINE]
      other ==
        CASE st.state = SELECT_STATE_WORD ->
               [st |-> [unregister_mods(
                          unregister_code(s0, KC_RGHT),
                          BitOr(MOD_BIT(KC_LSFT), MOD_BIT(KC_LCTL)))
                          EXCEPT !.state = STATE_SELECTED],
                ret |-> TRUE]
          [] st.state = STATE_FIRST_LINE ->
               [st |-> [s0 EXCEPT !.state = STATE_SELECTED], ret |-> TRUE]
          [] st.state = STATE_LINE ->
               [st |-> [unregister_code(s0, KC_DOWN)
                          EXCEPT !.state = STATE_SELECTED],
                ret |-> TRUE]
          [] st.state = STATE_SELECTED /\ keycode = KC_ESC ->
               [st |-> [tap_code(s0, KC_RGHT) EXCEPT !.state = STATE_NONE],
                ret |-> FALSE]
          [] OTHER ->
               [st |-> [s0 EXCEPT !.state = STATE_NONE], ret |-> TRUE]
  IN  IF keycode = KC_LSFT \/ keycode = KC_RSFT
        THEN [st |-> st, ret |-> TRUE]
      ELSE IF keycode = sel_keycode /\ rec.pressed
        THEN [st |-> IF shifted THEN line ELSE word, ret |-> FALSE]
      ELSE other

\* No one-shot mods in the model: get_oneshot_mods() is 0 and
\* clear_oneshot_mods() changes nothing.
process_select_word(st, keycode, rec, sel_keycode) ==
  LET m == st.mods
      shifted == BitAnd(m, MOD_MASK_SHIFT) # 0
      s0 == [st EXCEPT !.select_idle_timer =
                         (rec.time + SELECT_WORD_TIMEOUT) % TimerModulus]
      word ==
        LET a == set_mods(s0, MOD_BIT(KC_LCTL))
            b == IF st.state = STATE_NONE
                   THEN tap_code(tap_code(send_keyboard_report(a), KC_RGHT),
                                 KC_LEFT)
                   ELSE a
            c == register_code(register_mods(b, MOD_BIT(KC_LSFT)), KC_RGHT)
        IN  [c EXCEPT !.state = SELECT_STATE_WORD]
      line ==
        IF st.state = STATE_NONE
          THEN LET a == tap_code(send_keyboard_report(clear_mods(s0)), KC_HOME)
                   b == tap_code(register_mods(a, MOD_BIT(KC_LSFT)), KC_END)
               IN  [set_mods(b, m) EXCEPT !.state = STATE_FIRST_LINE]
          ELSE [register_code(s0, KC_DOWN) EXCEPT !.state = STATE_LINE]
      other ==
        CASE st.state = SELECT_STATE_WORD ->
               [st |-> [unregister_mods(
                          unregister_code(s0, KC_RGHT),
                          BitOr(MOD_BIT(KC_LSFT), MOD_BIT(KC_LCTL)))
                          EXCEPT !.state = STATE_SELECTED],
                ret |-> TRUE]
          [] st.state = STATE_FIRST_LINE ->
               [st |-> [s0 EXCEPT !.state = STATE_SELECTED], ret |-> TRUE]
          [] st.state = STATE_LINE ->
               [st |-> [unregister_code(s0, KC_DOWN)
                          EXCEPT !.state = STATE_SELECTED],
                ret |-> TRUE]
          [] st.state = STATE_SELECTED /\ keycode = KC_ESC ->
               [st |-> [tap_code(s0, KC_RGHT) EXCEPT !.state = STATE_NONE],
                ret |-> FALSE]
          [] OTHER ->
               [st |-> [s0 EXCEPT !.state = STATE_NONE], ret |-> TRUE]
  IN  IF keycode = KC_LSFT \/ keycode = KC_RSFT
        THEN [st |-> st, ret |-> TRUE]
      ELSE IF keycode = sel_keycode /\ rec.pressed
        THEN [st |-> IF shifted THEN line ELSE word, ret |-> FALSE]
      ELSE other

\* SelectSpec: the Select Word key, Escape, a letter and a Shift key, fed to
\* process_sentence_case() and process_select_word() in the order of
\* process_record_user() of keymap.c, and the matrix scans, which run
\* select_word_task() and sentence_case_task().
SelectKeycode ==
  [SEL |-> SELWORD, ESC |-> KC_ESC, A |-> KC_A, LSFT |-> KC_LSFT,
   LALT |-> KC_LALT]
SelectKeys == {"SEL", "ESC", "A", "LSFT"}

SelectRecord(st, keycode, rec) ==
  LET w == process_select_word(process_sentence_case(st, keycode, rec),
                               keycode, rec, SELWORD)
  IN  IF w.ret THEN DefaultAction(w.st, keycode, rec) ELSE w.st

SelectEvent(k, pressed) ==
  LET rec == [row |-> 0, col |-> 0, pressed |-> pressed,
              time |-> EventTime(timer), count |-> 0]
  IN  /\ Commit(SelectRecord(Cur, SelectKeycode[k], rec))
      /\ last' = [NoKey EXCEPT !.act = IF pressed THEN "press" ELSE "release",
                               !.k = k]
      /\ chorded' = IF ~pressed THEN chorded
                     ELSE IF k = "SEL" THEN {}
                     ELSE IF "SEL" \in matrix THEN chorded \cup {k}
                     ELSE chorded
      /\ UNCHANGED <<polls, tapcnt, solo, holds, taps, phrase>>

SelectPress ==
  \E k \in SelectKeys :
    /\ k \notin matrix
    /\ buffer[SENTENCE_CASE_BUFFER_SIZE - MaxSelected + 1] = KC_NO
    /\ matrix' = matrix \cup {k}
    /\ SelectEvent(k, TRUE)

SelectRelease ==
  \E k \in matrix :
    /\ matrix' = matrix \ {k}
    /\ SelectEvent(k, FALSE)

SelectScan ==
  /\ polls < MaxSelectPolls
  /\ polls' = polls + 1
  /\ Commit(sentence_case_task(select_word_task(
              [Cur EXCEPT !.timer = (timer + SelectTick) % TimerModulus])))
  /\ last' = [NoKey EXCEPT !.act = "scan"]
  /\ UNCHANGED <<matrix, tapcnt, solo, holds, taps, phrase, chorded>>

SelectNext == SelectPress \/ SelectRelease \/ SelectScan

SelectSpec == PlainInit /\ [][SelectNext]_vars

\* OverlaySpec: the Select Word key with a Shift key and Left Alt, key
\* events only: select_word.c, which has no idle timer.
OverlayKeys == {"SEL", "LSFT", "LALT"}

OverlayPress ==
  \E k \in OverlayKeys :
    /\ k \notin matrix
    /\ matrix' = matrix \cup {k}
    /\ SelectEvent(k, TRUE)

OverlayNext == OverlayPress \/ SelectRelease

OverlaySpec == PlainInit /\ [][OverlayNext]_vars

----------------------------------------------------------------------------
(* custom_shift_keys.c *)

KC_COMM == 54

\* custom_shift_keys[] of keymap.c.
custom_shift_keys ==
  << [keycode |-> KC_DOT, shifted_keycode |-> KC_QUES],
     [keycode |-> KC_COMM, shifted_keycode |-> KC_EXLM],
     [keycode |-> KC_EQL, shifted_keycode |-> KC_EQL],
     [keycode |-> KC_SLSH, shifted_keycode |-> KC_SLSH] >>
NUM_CUSTOM_SHIFT_KEYS == Len(custom_shift_keys)

\* The index, from 0, of the first entry of the table for a keycode; kNone
\* when there is none.
CustomIndex(keycode) ==
  LET found == {i \in 0..(NUM_CUSTOM_SHIFT_KEYS - 1) :
                  custom_shift_keys[i + 1].keycode = keycode}
  IN  IF found = {} THEN kNone
      ELSE CHOOSE i \in found : \A j \in found : i <= j

add_mods(st, m) ==
  Log([st EXCEPT !.mods = BitOr(@, m)], "add_mods", KC_NO, m, TRUE)

del_mods(st, m) ==
  Log([st EXCEPT !.mods = BitClear(@, m)], "del_mods", KC_NO, m, FALSE)

del_weak_mods(st, m) ==
  Log([st EXCEPT !.weak_mods = BitClear(@, m)], "del_weak_mods", KC_NO, m,
      FALSE)

\* Mutant: the mods are not restored after the registration.
process_custom_shift_keys_unrestored(st, keycode, rec) ==
  LET s1 == IF st.registered_keycode # KC_NO
              THEN [unregister_code16(st, st.registered_keycode)
                      EXCEPT !.registered_keycode = KC_NO]
              ELSE st
      i == CustomIndex(keycode)
      m == s1.mods
      isShifted == BitAnd(BitOr(m, s1.weak_mods), MOD_MASK_SHIFT) # 0
      s2 == IF isShifted
              THEN [del_weak_mods(del_mods(s1, MOD_MASK_SHIFT), MOD_MASK_SHIFT)
                      EXCEPT !.registered_keycode =
                               custom_shift_keys[i + 1].shifted_keycode]
              ELSE [s1 EXCEPT !.registered_keycode =
                                custom_shift_keys[i + 1].keycode]
      s3 == register_code16(s2, s2.registered_keycode)
  IN  IF i = kNone THEN [st |-> s1, ret |-> TRUE]
      ELSE IF rec.pressed THEN [st |-> s3, ret |-> FALSE]
      ELSE [st |-> s1, ret |-> FALSE]

\* Mutant: the press of a remapped key does not release the registered one.
process_custom_shift_keys_kept(st, keycode, rec) ==
  LET i == CustomIndex(keycode)
      s1 == IF st.registered_keycode # KC_NO /\ ~(i # kNone /\ rec.pressed)
              THEN [unregister_code16(st, st.registered_keycode)
                      EXCEPT !.registered_keycode = KC_NO]
              ELSE st
      m == s1.mods
      isShifted == BitAnd(BitOr(m, s1.weak_mods), MOD_MASK_SHIFT) # 0
      s2 == IF isShifted
              THEN [del_weak_mods(del_mods(s1, MOD_MASK_SHIFT), MOD_MASK_SHIFT)
                      EXCEPT !.registered_keycode =
                               custom_shift_keys[i + 1].shifted_keycode]
              ELSE [s1 EXCEPT !.registered_keycode =
                                custom_shift_keys[i + 1].keycode]
      s3 == set_mods(register_code16(s2, s2.registered_keycode), m)
  IN  IF i = kNone THEN [st |-> s1, ret |-> TRUE]
      ELSE IF rec.pressed THEN [st |-> s3, ret |-> FALSE]
      ELSE [st |-> s1, ret |-> FALSE]

\* process_custom_shift_keys() of part_006.  No one-shot mods in the model:
\* get_oneshot_mods() is 0 and del_oneshot_mods() changes nothing.
process_custom_shift_keys(st, keycode, rec) ==
  LET s1 == IF st.registered_keycode # KC_NO
              THEN [unregister_code16(st, st.registered_keycode)
                      EXCEPT !.registered_keycode = KC_NO]
              ELSE st
      i == CustomIndex(keycode)
      m == s1.mods
      isShifted == BitAnd(BitOr(m, s1.weak_mods), MOD_MASK_SHIFT) # 0
      s2 == IF isShifted
              THEN [del_weak_mods(del_mods(s1, MOD_MASK_SHIFT), MOD_MASK_SHIFT)
                      EXCEPT !.registered_keycode =
                               custom_shift_keys[i + 1].shifted_keycode]
              ELSE [s1 EXCEPT !.registered_keycode =
                                custom_shift_keys[i + 1].keycode]
      s3 == set_mods(register_code16(s2, s2.registered_keycode), m)
  IN  IF i = kNone THEN [st |-> s1, ret |-> TRUE]
      ELSE IF rec.pressed THEN [st |-> s3, ret |-> FALSE]
      ELSE [st |-> s1, ret |-> FALSE]

\* custom_shift_keycode() of part_005.
custom_shift_keycode(key, isShifted) ==
  IF isShifted THEN custom_shift_keys[key + 1].shifted_keycode
  ELSE custom_shift_keys[key + 1].keycode

\* process_custom_shift_keys() of part_005, which keeps the Shift mods in
\* saved_mods until the next event.
process_custom_shift_keys_saved(st, keycode, rec) ==
  LET s1 == IF st.active_key # kNone
              THEN [add_mods(
                      unregister_code16(
                        st, custom_shift_keycode(st.active_key, st.shifted)),
                      st.saved_mods)
                      EXCEPT !.active_key = kNone, !.saved_mods = 0,
                             !.shifted = FALSE]
              ELSE st
      i == CustomIndex(keycode)
      isShifted == BitAnd(s1.mods, MOD_MASK_SHIFT) # 0
      s2 == IF isShifted
              THEN [del_mods([s1 EXCEPT !.saved_mods =
                                          BitAnd(s1.mods, MOD_MASK_SHIFT)],
                             MOD_MASK_SHIFT)
                      EXCEPT !.shifted = TRUE]
              ELSE [s1 EXCEPT !.shifted = FALSE]
      s3 == register_code16([s2 EXCEPT !.active_key = i],
                            custom_shift_keycode(i, s2.shifted))
  IN  IF i = kNone THEN [st |-> s1, ret |-> TRUE]
      ELSE IF rec.pressed THEN [st |-> s3, ret |-> FALSE]
      ELSE [st |-> s1, ret |-> FALSE]

\* CustomSpec: two remapped keys (Shift . is ?, / is not shifted), a letter,
\* the two Shift keys and Left Ctrl, fed to process_custom_shift_keys() of
\* either version and, when it returns true, to the default handling.
CustomKeycode ==
  [DOT |-> KC_DOT, SLSH |-> KC_SLSH, A |-> KC_A, LSFT |-> KC_LSFT,
   RSFT |-> KC_RSFT, LCTL |-> KC_LCTL]
CustomKeys == DOMAIN CustomKeycode

CustomRecord(st, keycode, rec) ==
  LET r == IF restore_late
             THEN process_custom_shift_keys_saved(st, keycode, rec)
             ELSE process_custom_shift_keys(st, keycode, rec)
  IN  IF r.ret THEN DefaultAction(r.st, keycode, rec) ELSE r.st

CustomEvent(k, pressed) ==
  LET rec == [row |-> 0, col |-> 0, pressed |-> pressed,
              time |-> EventTime(timer), count |-> 0]
  IN  /\ Commit(CustomRecord(Cur, CustomKeycode[k], rec))
      /\ last' = [NoKey EXCEPT !.act = IF pressed THEN "press" ELSE "release",
                               !.k = k]
      /\ UNCHANGED <<polls, tapcnt, solo, holds, taps, phrase, chorded>>

CustomPress ==
  \E k \in CustomKeys :
    /\ k \notin matrix
    /\ matrix' = matrix \cup {k}
    /\ CustomEvent(k, TRUE)

CustomRelease ==
  \E k \in matrix :
    /\ matrix' = matrix \ {k}
    /\ CustomEvent(k, FALSE)

CustomNext == CustomPress \/ CustomRelease

CustomInit ==
  PowerUp /\ SenInit /\ user_chord = TRUE /\ restore_late \in BOOLEAN

CustomSpec == CustomInit /\ [][CustomNext]_vars

----------------------------------------------------------------------------
(* WrapSpec: the handlers and the tasks of keymap.c around the wraparound *)
(* of the 16-bit clock.                                                    *)

\* The keys of WrapSpec: a mod-tap key, the Select Word key and a letter.
WrapKeys == {"D", "SEL", "K"}

\* process_record_user() of keymap.c after process_achordion() returned
\* true, custom shift keys left out.
KeymapHandlers(st, keycode, rec) ==
  process_select_word(process_sentence_case(st, keycode, rec), keycode, rec,
                      SELWORD)

WrapEvent(k, pressed) ==
  LET rec == [row |-> KeyDef[k].row, col |-> KeyDef[k].col,
              pressed |-> pressed, time |-> EventTime(timer), count |-> 0]
  IN  /\ \E st \in {ProcessRecord([Cur EXCEPT !.keymap = TRUE], rec)} :
           Commit(st)
      /\ last' = [NoKey EXCEPT !.act = IF pressed THEN "press" ELSE "release",
                               !.k = k]
      /\ UNCHANGED <<polls, tapcnt, solo, holds, taps, phrase, chorded>>

\* One key is down at a time: a pending key is settled by the timeout only.
WrapPress ==
  \E k \in WrapKeys :
    /\ matrix = {}
    /\ buffer[SENTENCE_CASE_BUFFER_SIZE - MaxWrapped + 1] = KC_NO
    /\ matrix' = {k}
    /\ WrapEvent(k, TRUE)

WrapRelease ==
  \E k \in matrix :
    /\ matrix' = matrix \ {k}
    /\ WrapEvent(k, FALSE)

\* matrix_scan_user() of keymap.c, WrapTick milliseconds after the last one.
WrapScan ==
  /\ polls < MaxWrapPolls
  /\ polls' = polls + 1
  /\ Commit(sentence_case_task(select_word_task(achordion_task(
              [Cur EXCEPT !.timer = (timer + WrapTick) % TimerModulus]))))
  /\ last' = [NoKey EXCEPT !.act = "scan"]
  /\ UNCHANGED <<matrix, tapcnt, solo, holds, taps, phrase, chorded>>

WrapNext == WrapPress \/ WrapRelease \/ WrapScan

\* The keyboard has been on for WrapStart milliseconds with no key pressed:
\* the first matrix scan after power-up has run achordion_task(), which set
\* `settled` and turned layer 0 on.
WrapInit ==
  /\ timer = WrapStart
  /\ settled = TRUE
  /\ layer_state = 1
  /\ AtRest /\ SenInit
  /\ user_chord = TRUE /\ restore_late = FALSE

WrapSpec == WrapInit /\ [][WrapNext]_vars

----------------------------------------------------------------------------
(* sentence_case.c with a state history (part_006) *)

KC_BSPC == 42

sentence_case_clear(st) ==
  set_sentence_state(
    [st EXCEPT !.idle_timer = 0,
               !.buffer = [i \in 1..SENTENCE_CASE_BUFFER_SIZE |-> KC_NO],
               !.state_history = [i \in 1..HISTORY_SIZE |-> STATE_INIT],
               !.suppress_key = KC_NO],
    STATE_INIT)

\* The one-shot Shift is used up by the default handling of the letter that
\* set it: it is no modifier of the next event.
set_oneshot_mods(st, m) == Log(st, "set_oneshot_mods", KC_NO, m, TRUE)

\* The variant where Backspace is one more key that is neither a letter, nor
\* punctuation, nor Space: it clears the state.
process_sentence_case_history_clear(st, keycode0, rec) ==
  LET m == st.mods
      ignored ==
        \/ QK_MOMENTARY <= keycode0 /\ keycode0 <= QK_MOMENTARY_MAX
        \/ QK_TO <= keycode0 /\ keycode0 <= QK_TO_MAX
        \/ QK_TOGGLE_LAYER <= keycode0 /\ keycode0 <= QK_TOGGLE_LAYER_MAX
        \/ QK_LAYER_TAP_TOGGLE <= keycode0
             /\ keycode0 <= QK_LAYER_TAP_TOGGLE_MAX
        \/ QK_ONE_SHOT_LAYER <= keycode0 /\ keycode0 <= QK_ONE_SHOT_LAYER_MAX
        \/ keycode0 \in {KC_LSFT, KC_RSFT, OSM(MOD_LSFT), OSM(MOD_RSFT)}
      taphold == IsModTap(keycode0) \/ IsLayerTap(keycode0)
      keycode == IF taphold THEN keycode0 % 256 ELSE keycode0
      s == st.sentence_state
      s0 == [st EXCEPT !.idle_timer =
               BitOr((rec.time + SENTENCE_CASE_TIMEOUT) % TimerModulus, 1)]
      space == keycode = KC_SPC
      letter == ~space /\ sentence_case_is_letter(keycode)
      punct == ~space /\ ~letter /\ sentence_case_is_punct(st, keycode)
      primes == space /\ (s = STATE_PRIMED
                            \/ (s = STATE_ENDING
                                  /\ sentence_case_check_ending(st.buffer)))
      starts == letter /\ s = STATE_PRIMED /\ keycode # st.suppress_key
      new_state ==
        IF space THEN IF primes THEN STATE_PRIMED ELSE STATE_INIT
        ELSE IF letter
          THEN IF s <= STATE_MATCHED THEN STATE_WORD
               ELSE IF s = STATE_PRIMED
                 THEN IF starts THEN STATE_MATCHED ELSE STATE_INIT
               ELSE STATE_ABBREV
        ELSE IF s = STATE_WORD \/ s = STATE_MATCHED THEN STATE_ENDING
        ELSE IF s = STATE_ABBREV THEN STATE_ABBREV
        ELSE STATE_INIT
      s1 == IF primes THEN [s0 EXCEPT !.suppress_key = KC_NO]
            ELSE IF starts
              THEN LET s1a == [s0 EXCEPT !.suppress_key = keycode]
                   IN  IF BitAnd(m, MOD_MASK_SHIFT) = 0
                         THEN set_oneshot_mods(s1a, MOD_BIT(KC_LSFT))
                         ELSE s1a
            ELSE s0
      key_buffer == [i \in 1..SENTENCE_CASE_BUFFER_SIZE |->
                       IF i < SENTENCE_CASE_BUFFER_SIZE
                         THEN st.buffer[i + 1] ELSE keycode]
      checked == IF new_state = STATE_ENDING
                      /\ ~sentence_case_check_ending(key_buffer)
                   THEN STATE_INIT ELSE new_state
      s2 == [s1 EXCEPT
               !.buffer = key_buffer,
               !.state_history = [i \in 1..HISTORY_SIZE |->
                                    IF i < HISTORY_SIZE
                                      THEN st.state_history[i + 1] ELSE s]]
  IN  IF ~rec.pressed THEN st
      ELSE IF BitClear(m, BitOr(MOD_MASK_SHIFT, MOD_BIT(KC_RALT))) # 0
        THEN sentence_case_clear(s0)
      ELSE IF ignored THEN s0
      ELSE IF taphold /\ rec.count = 0 THEN s0
      ELSE IF space \/ letter \/ punct THEN set_sentence_state(s2, checked)
      ELSE sentence_case_clear(s0)

\* The handler always returns true; the result is the state it leaves.
process_sentence_case_history(st, keycode0, rec) ==
  LET m == st.mods
      ignored ==
        \/ QK_MOMENTARY <= keycode0 /\ keycode0 <= QK_MOMENTARY_MAX
        \/ QK_TO <= keycode0 /\ keycode0 <= QK_TO_MAX
        \/ QK_TOGGLE_LAYER <= keycode0 /\ keycode0 <= QK_TOGGLE_LAYER_MAX
        \/ QK_LAYER_TAP_TOGGLE <= keycode0
             /\ keycode0 <= QK_LAYER_TAP_TOGGLE_MAX
        \/ QK_ONE_SHOT_LAYER <= keycode0 /\ keycode0 <= QK_ONE_SHOT_LAYER_MAX
        \/ keycode0 \in {KC_LSFT, KC_RSFT, OSM(MOD_LSFT), OSM(MOD_RSFT)}
      taphold == IsModTap(keycode0) \/ IsLayerTap(keycode0)
      keycode == IF taphold THEN keycode0 % 256 ELSE keycode0
      s == st.sentence_state
      s0 == [st EXCEPT !.idle_timer =
               BitOr((rec.time + SENTENCE_CASE_TIMEOUT) % TimerModulus, 1)]
      space == keycode = KC_SPC
      letter == ~space /\ sentence_case_is_letter(keycode)
      punct == ~space /\ ~letter /\ sentence_case_is_punct(st, keycode)
      primes == space /\ (s = STATE_PRIMED
                            \/ (s = STATE_ENDING
                                  /\ sentence_case_check_ending(st.buffer)))
      starts == letter /\ s = STATE_PRIMED /\ keycode # st.suppress_key
      new_state ==
        IF space THEN IF primes THEN STATE_PRIMED ELSE STATE_INIT
        ELSE IF letter
          THEN IF s <= STATE_MATCHED THEN STATE_WORD
               ELSE IF s = STATE_PRIMED
                 THEN IF starts THEN STATE_MATCHED ELSE STATE_INIT
               ELSE STATE_ABBREV
        ELSE IF s = STATE_WORD \/ s = STATE_MATCHED THEN STATE_ENDING
        ELSE IF s = STATE_ABBREV THEN STATE_ABBREV
        ELSE STATE_INIT
      s1 == IF primes THEN [s0 EXCEPT !.suppress_key = KC_NO]
            ELSE IF starts
              THEN LET s1a == [s0 EXCEPT !.suppress_key = keycode]
                   IN  IF BitAnd(m, MOD_MASK_SHIFT) = 0
                         THEN set_oneshot_mods(s1a, MOD_BIT(KC_LSFT))
                         ELSE s1a
            ELSE s0
      key_buffer == [i \in 1..SENTENCE_CASE_BUFFER_SIZE |->
                       IF i < SENTENCE_CASE_BUFFER_SIZE
                         THEN st.buffer[i + 1] ELSE keycode]
      checked == IF new_state = STATE_ENDING
                      /\ ~sentence_case_check_ending(key_buffer)
                   THEN STATE_INIT ELSE new_state
      s2 == [s1 EXCEPT
               !.buffer = key_buffer,
               !.state_history = [i \in 1..HISTORY_SIZE |->
                                    IF i < HISTORY_SIZE
                                      THEN st.state_history[i + 1] ELSE s]]
      rewound ==
        set_sentence_state(
          [s0 EXCEPT
             !.state_history = [i \in 1..HISTORY_SIZE |->
                                  IF i = 1 THEN STATE_INIT
                                  ELSE st.state_history[i - 1]],
             !.buffer = [i \in 1..SENTENCE_CASE_BUFFER_SIZE |->
                           IF i = 1 THEN KC_NO ELSE st.buffer[i - 1]]],
          st.state_history[HISTORY_SIZE])
  IN  IF ~rec.pressed THEN st
      ELSE IF BitClear(m, BitOr(MOD_MASK_SHIFT, MOD_BIT(KC_RALT))) # 0
        THEN sentence_case_clear(s0)
      ELSE IF ignored THEN s0
      ELSE IF taphold /\ rec.count = 0 THEN s0
      ELSE IF space \/ letter \/ punct THEN set_sentence_state(s2, checked)
      ELSE IF keycode = KC_BSPC THEN rewound
      ELSE sentence_case_clear(s0)

\* HistorySpec: process_sentence_case() of part_006 fed a letter, the period,
\* Space, Backspace and Escape, tapped one at a time from power-up with no
\* modifier.
HistoryKeycode ==
  [A |-> KC_A, DOT |-> KC_DOT, SPC |-> KC_SPC, BSPC |-> KC_BSPC,
   ESC |-> KC_ESC]
HistoryKeys == DOMAIN HistoryKeycode

\* A press the state machine classifies: a letter, punctuation or Space.
ClassifiedPress(st, keycode) ==
  \/ keycode = KC_SPC
  \/ sentence_case_is_letter(keycode)
  \/ sentence_case_is_punct(st, keycode)

\* The run after a key event.  A classified press lengthens the run of
\* classified presses, or starts a new one after a Backspace; `before` keeps
\* the state before each of its last HISTORY_SIZE presses.  A Backspace
\* press is counted, any other press ends the run.
RunAfter(r, st, keycode, pressed) ==
  IF ~pressed THEN r
  ELSE IF ClassifiedPress(st, keycode)
    THEN IF r.back > 0
           THEN [before |-> <<st.sentence_state>>, n |-> 1, back |-> 0]
           ELSE [before |-> Append(IF Len(r.before) < HISTORY_SIZE
                                     THEN r.before ELSE Tail(r.before),
                                   st.sentence_state),
                 n |-> r.n + 1, back |-> 0]
  ELSE IF keycode = KC_BSPC THEN [r EXCEPT !.back = @ + 1]
  ELSE NoRun

HistoryEvent(k, pressed) ==
  LET rec == [row |-> 0, col |-> 0, pressed |-> pressed,
              time |-> EventTime(timer), count |-> 0]
      keycode == HistoryKeycode[k]
      st == DefaultAction(process_sentence_case_history(Cur, keycode, rec),
                          keycode, rec)
  IN  /\ Commit([st EXCEPT !.run = RunAfter(run, Cur, keycode, pressed)])
      /\ UNCHANGED <<polls, tapcnt, last, solo, holds, taps, phrase, chorded>>

HistoryPress ==
  \E k \in HistoryKeys :
    /\ matrix = {}
    \* text is typed, then taken back
    /\ k \in {"A", "DOT", "SPC"} => run.back = 0 /\ run.n < MaxRun
    /\ k = "BSPC" => run.back <= Len(run.before)
    /\ matrix' = matrix \cup {k}
    /\ HistoryEvent(k, TRUE)

HistoryRelease ==
  \E k \in matrix :
    /\ matrix' = matrix \ {k}
    /\ HistoryEvent(k, FALSE)

HistoryNext == HistoryPress \/ HistoryRelease

\* The static state of sentence_case.c after a letter was tapped at
\* power-up: the state it pushed on the history is STATE_INIT.
SenTyped ==
  /\ sentence_state = STATE_WORD
  /\ buffer = [i \in 1..SENTENCE_CASE_BUFFER_SIZE |->
                IF i < SENTENCE_CASE_BUFFER_SIZE THEN KC_NO ELSE KC_A]
  /\ idle_timer = BitOr(EventTime(0) + SENTENCE_CASE_TIMEOUT, 1)

\* A behaviour starts at power-up, or with that letter typed.
HistoryInit ==
  PowerUp /\ user_chord = TRUE /\ restore_late = FALSE
    /\ (SenInit \/ SenTyped)

HistorySpec == HistoryInit /\ [][HistoryNext]_vars

----------------------------------------------------------------------------
(* Vocabulary of the claims about Achordion. *)

Kc(k) == KeyDef[k].kc

\* The step presses / releases key k, or is a matrix scan.
Pressed(k) == k \notin matrix /\ matrix' = matrix \cup {k}
Released(k) == k \in matrix /\ matrix' = matrix \ {k}
Scanned == polls' = polls + 1
\* The keys the step presses or releases.
Moved == (matrix' \ matrix) \cup (matrix \ matrix')

\* The events of a handler that reached the later handlers and the default
\* handling, in order.
Defaults(o) == SelectSeq(o, LAMBDA e : e.op = "default")

Delivery(e, kc, pressed, count) ==
  e.op = "default" /\ e.kc = kc /\ e.pressed = pressed /\ e.arg = count

\* The hold action of a tap-hold keycode, as its own bit fields give it.
HoldModsOf(kc) ==
  IF (kc \div 4096) % 2 = 1 THEN ((kc \div 256) % 16) * 16 ELSE (kc \div 256) % 16
HoldLayerOf(kc) == (kc \div 256) % 16

TapHoldKeys == {k \in Keys : IsTapHold(Kc(k))}

Active == tap_hold_keycode # KC_NO
Pending == Active /\ ~settled

----------------------------------------------------------------------------
(* C1: between its press and its release, Achordion never both applies the *)
(* hold action of a tap-hold key and replays that key as a tap, whatever   *)
(* key events and matrix scans come in between.                            *)
C1_NeverTapAndHold ==
  \A k \in TapHoldKeys : ~(holds[Kc(k)] > 0 /\ taps[Kc(k)] > 0)

\* A key captured as pending was replayed as a tap, is still held down, and
\* matrix scans have run since.
C1_Witness ==
  \E k \in matrix :
    /\ tapcnt[k] = 0 /\ IsTapHold(Kc(k)) /\ achordion_timeout(Kc(k)) > 0
    /\ taps[Kc(k)] = 1 /\ holds[Kc(k)] = 0
    /\ last.act = "scan" /\ polls >= 2

----------------------------------------------------------------------------
(* C2 as claimed: a tap-hold key pressed and released before its deadline, *)
(* with no other key event in between, has its tap emitted exactly once    *)
(* and its hold action never applied.                                      *)
AloneEarly ==
  /\ last.act = "release" /\ last.alone
  /\ IsTapHold(Kc(last.k)) /\ achordion_timeout(Kc(last.k)) > 0
  /\ last.captured => last.early

----------------------------------------------------------------------------
(* C3: a pending key held with no other key event until its deadline has   *)
(* its hold action applied by the first matrix scan at or after the        *)
(* deadline and by no scan before it; the hold action is applied once for  *)
(* that press, and only while the key is down.                             *)
C3_Step ==
  /\ \A k \in Keys :
       (Scanned /\ Pending /\ tap_hold_keycode = Kc(k) /\ solo = k) =>
          IF timer_expired(timer', hold_timer)
            THEN /\ settled' /\ holds'[Kc(k)] = 1
                 /\ Len(out') = 1 /\ IsHoldOp(out'[1]) /\ out'[1].kc = Kc(k)
                 /\ k \in matrix
            ELSE /\ ~settled' /\ holds'[Kc(k)] = 0 /\ out' = <<>>
  /\ \A k \in TapHoldKeys :
       /\ holds'[Kc(k)] <= 1
       /\ holds'[Kc(k)] > holds[Kc(k)] => k \in matrix'

C3_HoldOnTimeout == [][C3_Step]_vars

\* The hold action was applied by the timeout, and a later scan found
\* nothing more to do.
C3_Witness ==
  \E k \in matrix :
    /\ solo = k /\ tap_hold_keycode = Kc(k) /\ settled
    /\ holds[Kc(k)] = 1 /\ last.act = "scan" /\ out = <<>>
    /\ timer_expired(timer, hold_timer)

----------------------------------------------------------------------------
(* C4: with the default achordion_chord(), a press of a physical key that  *)
(* is not itself a held tap-hold key, while a key is pending, resolves the *)
(* pending key as hold if the two keys are on opposite hands and as tap    *)
(* otherwise.                                                              *)
C4_Step ==
  \A k \in Keys :
    (/\ ~user_chord /\ Pressed(k) /\ Pending
     /\ KeyDef[k].row < NoPos /\ KeyDef[k].col < NoPos
     /\ ~(IsTapHold(Kc(k)) /\ tapcnt'[k] = 0)) =>
       LET p == tap_hold_keycode
           opposite ==
             on_left_hand(tap_hold_record.row, tap_hold_record.col)
               # on_left_hand(KeyDef[k].row, KeyDef[k].col)
       IN  IF opposite
             THEN holds'[p] = 1 /\ taps'[p] = 0
             ELSE holds'[p] = 0 /\ taps'[p] = 1

C4_OppositeHands == [][C4_Step]_vars

\* A pending left-hand key was resolved as tap by a left-hand key.
C4_Witness ==
  /\ ~user_chord /\ last.act = "press" /\ KeyDef[last.k].row < 6
  /\ \E k \in matrix \ {last.k} :
       /\ KeyDef[k].row < 6 /\ tapcnt[k] = 0 /\ IsTapHold(Kc(k))
       /\ taps[Kc(k)] = 1 /\ holds[Kc(k)] = 0 /\ settled

----------------------------------------------------------------------------
(* C5 as claimed: when a pending key is resolved as tap, the handlers       *)
(* after Achordion and the default handling receive the synthesized tap    *)
(* press of the pending key, then its synthesized release, then the press  *)
(* of the triggering key, each exactly once.                               *)
TapReplayed == \E i \in DOMAIN out : out[i].op = "wait_ms"

C5_TapReplayOrder ==
  (last.act = "press" /\ TapReplayed) =>
    LET d == Defaults(out) IN
      /\ Len(d) = 3
      /\ IsTapHold(d[1].kc) /\ d[1].pressed /\ d[1].arg = 1
      /\ Delivery(d[2], d[1].kc, FALSE, 1)
      /\ Delivery(d[3], Kc(last.k), TRUE, last.count)

\* A pending key was resolved as tap by a same-hand key press.
C5_Case ==
  /\ last.act = "press" /\ TapReplayed
  /\ Len(Defaults(out)) = 2

----------------------------------------------------------------------------
(* C6: when HOME_D (tap D, hold Ctrl, timeout 800 ms) is pending and the   *)
(* opposite-hand key K is pressed before the deadline, Ctrl is registered  *)
(* before K's press is re-processed, K's press reaches the default         *)
(* handling with Ctrl active, and the tap of HOME_D is emitted at no point *)
(* between its press and its release.                                      *)
C6_Step ==
  /\ (tap_hold_keycode = HOME_D /\ ~settled /\ Pressed("K")) =>
        /\ Len(out') = 2
        /\ out'[1].op = "register_mods" /\ out'[1].arg = MOD_LCTL
        /\ Delivery(out'[2], KC_K, TRUE, 0)
        /\ BitAnd(out'[2].mods, MOD_LCTL) = MOD_LCTL
        /\ BitAnd(mods', MOD_LCTL) = MOD_LCTL
        /\ holds'[HOME_D] = 1 /\ taps'[HOME_D] = 0
  /\ holds'[HOME_D] > 0 => taps'[HOME_D] = 0

C6_CtrlK == [][C6_Step]_vars

\* K was just pressed while HOME_D was pending, and Ctrl is on.
C6_Witness ==
  /\ last.act = "press" /\ last.k = "K"
  /\ tap_hold_keycode = HOME_D /\ settled /\ hold_mods = MOD_LCTL
  /\ "D" \in matrix /\ holds[HOME_D] = 1
  /\ Len(out) = 2 /\ out[2].kc = KC_K

----------------------------------------------------------------------------
(* C7: Achordion tracks at most one tap-hold key: the press of a second    *)
(* tap-hold key (tap.count = 0) while one is active is never captured, it  *)
(* settles the first key (as hold, when it was pending) and is passed to   *)
(* the default handling exactly once.                                      *)
C7_Step ==
  \A k \in Keys :
    (Pressed(k) /\ Active /\ IsTapHold(Kc(k)) /\ tapcnt'[k] = 0) =>
       /\ tap_hold_keycode' = tap_hold_keycode
       /\ tap_hold_record' = tap_hold_record
       /\ hold_timer' = hold_timer
       /\ settled'
       /\ ~settled => holds'[tap_hold_keycode] = 1 /\ taps'[tap_hold_keycode] = 0
       /\ Len(Defaults(out')) = 1
       /\ Delivery(Defaults(out')[1], Kc(k), TRUE, 0)

C7_OneActiveKey == [][C7_Step]_vars

\* A second tap-hold key, on the same hand, was pressed while the first was
\* pending.
C7_Witness ==
  /\ last.act = "press" /\ last.count = 0 /\ IsTapHold(Kc(last.k))
  /\ Active /\ tap_hold_keycode # Kc(last.k) /\ settled
  /\ holds[tap_hold_keycode] = 1
  /\ on_left_hand(tap_hold_record.row, tap_hold_record.col)
       = on_left_hand(KeyDef[last.k].row, KeyDef[last.k].col)
  /\ Len(Defaults(out)) = 1

----------------------------------------------------------------------------
(* C8 as claimed: once the active key was resolved as hold, its hold mods  *)
(* or hold layer stay applied until its release, and the release           *)
(* unregisters exactly those mods or turns off exactly that layer, leaving *)
(* hold_mods = 0, hold_layer = 0 and Achordion idle, for every mod-tap and *)
(* every layer-tap key.                                                    *)
C8_Step ==
  \A k \in Keys :
    (Active /\ tap_hold_keycode = Kc(k) /\ holds[Kc(k)] = 1) =>
      IF Released(k)
        THEN /\ hold_mods' = 0 /\ hold_layer' = 0
             /\ tap_hold_keycode' = KC_NO
             /\ Len(out') = 1
             /\ IsModTap(Kc(k)) =>
                  /\ out'[1].op = "unregister_mods"
                  /\ out'[1].arg = HoldModsOf(Kc(k))
                  /\ mods' = BitClear(mods, HoldModsOf(Kc(k)))
                  /\ layer_state' = layer_state
             /\ IsLayerTap(Kc(k)) =>
                  /\ out'[1].op = "layer_off"
                  /\ out'[1].arg = HoldLayerOf(Kc(k))
                  /\ layer_state' = BitClear(layer_state, Pow2(HoldLayerOf(Kc(k))))
                  /\ mods' = mods
        ELSE /\ IsModTap(Kc(k)) =>
                  /\ hold_mods' = HoldModsOf(Kc(k))
                  /\ BitAnd(mods', hold_mods') = hold_mods'
             /\ IsLayerTap(Kc(k)) =>
                  /\ hold_layer' = HoldLayerOf(Kc(k))
                  /\ BitAnd(layer_state', Pow2(hold_layer')) = Pow2(hold_layer')

C8_HoldUntilRelease == [][C8_Step]_vars

\* The layer-tap key of layer 0 was released after its hold action.
C8_Case ==
  /\ last.act = "release" /\ last.k = "EQL" /\ out = <<>>
  /\ hold_layer = 0 /\ tap_hold_keycode = KC_NO

----------------------------------------------------------------------------
(* C9: a tap-hold key whose achordion_timeout() is 0 (HOME_Z, of the keys  *)
(* the model presses) bypasses Achordion:                                  *)
(* it is never the active key; its press when Achordion is idle changes no *)
(* Achordion state, no mods and no layer, and is passed to the default     *)
(* handling; its release is passed to the default handling too.            *)
ZeroTimeoutKeys == {"Z"}

C9_Step ==
  \A k \in ZeroTimeoutKeys :
    /\ tap_hold_keycode' # Kc(k)
    /\ (Pressed(k) /\ tap_hold_keycode = KC_NO) =>
          /\ UNCHANGED achVars
          /\ mods' = mods /\ layer_state' = layer_state
          /\ Len(out') = 1 /\ Delivery(out'[1], Kc(k), TRUE, tapcnt'[k])
    /\ Pressed(k) =>
          /\ Len(Defaults(out')) = 1
          /\ Delivery(Defaults(out')[1], Kc(k), TRUE, tapcnt'[k])
    /\ Released(k) =>
          /\ Len(Defaults(out')) = 1
          /\ Delivery(Defaults(out')[1], Kc(k), FALSE, tapcnt[k])
          /\ UNCHANGED achVars

C9_TimeoutZeroBypass == [][C9_Step]_vars

\* HOME_Z was pressed with Achordion idle, held across a scan and released.
C9_Witness ==
  /\ last.act = "release" /\ last.k = "Z" /\ last.alone /\ ~last.captured
  /\ achordion_timeout(HOME_Z) = 0
  /\ polls >= 1 /\ tap_hold_keycode = KC_NO
  /\ Len(out) = 1 /\ Delivery(out[1], HOME_Z, FALSE, 0)

----------------------------------------------------------------------------
(* C10: pressing and releasing the Repeat key or the Alternate Repeat key  *)
(* leaves the remembered keycode and the remembered mods unchanged: the    *)
(* event Repeat Key plumbs in is not remembered anew, so a second Repeat   *)
(* replays the same key with the same mods (the replayed event reaches the *)
(* default handling unless it is an event of Achordion's active key).      *)
C10_Step ==
  \A k \in {"REP", "REV"} :
    (Pressed(k) \/ Released(k)) =>
      /\ last_keycode' = last_keycode
      /\ last_mods' = last_mods
      /\ (k = "REP" /\ ~IS_NOEVENT(last_record)
            /\ tap_hold_keycode # last_keycode) =>
           \E i \in DOMAIN out' :
             /\ Delivery(out'[i], last_keycode, Pressed(k), last_record.count)
             /\ BitAnd(out'[i].mods, last_mods) = last_mods

C10_RepeatKeepsLast == [][C10_Step]_vars

\* Repeat was pressed and released twice in a row after a key was
\* remembered with mods, and replayed it the second time too.
C10_Witness ==
  /\ last.act = "release" /\ last.k = "REP"
  /\ repeat_counter = 2 /\ last_keycode # KC_NO /\ last_mods # 0
  /\ Len(Defaults(out)) = 1

----------------------------------------------------------------------------
(* Vocabulary of the claims about Repeat Key. *)

Triggers == {"REP", "REV"}

Remembered == ~IS_NOEVENT(last_record)

\* The presses in o that reached Repeat Key's handler and that it remembers:
\* all eligible presses of keys other than the two triggers.
EligiblePresses(o) ==
  {i \in DOMAIN o :
     /\ o[i].op = "default" /\ o[i].pressed
     /\ o[i].kc \notin {REPEAT, REVREP}
     /\ repeat_key_press_user(o[i].kc, [count |-> o[i].arg])}

Latest(I) == CHOOSE i \in I : \A j \in I : j <= i

\* The deliveries of the remembered key in o, pressed or released.
Replays(o, pressed) ==
  {i \in DOMAIN o : Delivery(o[i], last_keycode, pressed, last_record.count)}

Covers(m, sub) == BitAnd(m, sub) = sub

----------------------------------------------------------------------------
(* C11: an eligible key pressed while the mods M are active is remembered  *)
(* with M, and a later press of the Repeat key, whatever mods H are held   *)
(* by then, replays the press with every mod of M and of H registered.     *)
C11_Step ==
  /\ \A k \in RepKeys \ Triggers :
       (Pressed(k) /\ EligiblePresses(out') # {}) =>
         LET e == out'[Latest(EligiblePresses(out'))]
         IN  /\ last_keycode' = e.kc
             /\ last_mods' = BitOr(e.mods, weak_mods)
  /\ (Pressed("REP") /\ Remembered) =>
       /\ Replays(out', TRUE) # {}
       /\ \A i \in Replays(out', TRUE) :
            Covers(out'[i].mods, last_mods) /\ Covers(out'[i].mods, mods)

----------------------------------------------------------------------------
\* The alternate of the remembered key, KC_NO if it has none.
Complement == rev_repeat_key_keycode(Cur)

\* The keycodes a handler registered with register_code16(), in order.
Registers(o) == SelectSeq(o, LAMBDA e : e.op = "register_code16")

\* What a press of a trigger produced: replays of the remembered press and
\* registrations of a keycode.
ProducedRepeat(o) == Cardinality(Replays(o, TRUE)) = 1 /\ Registers(o) = <<>>
ProducedAlternate(o) ==
  /\ Replays(o, TRUE) = {}
  /\ Len(Registers(o)) = 1 /\ Registers(o)[1].kc = Complement
ProducedNothing(o) == Replays(o, TRUE) = {} /\ Registers(o) = <<>>

(* C12 as claimed: every press of the Repeat key produces the remembered   *)
(* event exactly once, and every press of the Alternate Repeat key the     *)
(* complement of the remembered event exactly once.                        *)
C12_OriginalStep ==
  /\ Pressed("REP") => ProducedRepeat(out')
  /\ Pressed("REV") => ProducedAlternate(out')

C12_Original == [][C12_OriginalStep]_vars

(* C12 amended: a press of the Repeat key while a key is remembered        *)
(* produces the remembered event exactly once and no alternate; a press of *)
(* the Alternate Repeat key while the remembered key has an alternate      *)
(* registers that alternate exactly once and replays nothing; a press of a *)
(* trigger with nothing remembered, or with no alternate, produces neither.*)
C12_Step ==
  /\ Pressed("REP") =>
       IF Remembered THEN ProducedRepeat(out') ELSE ProducedNothing(out')
  /\ Pressed("REV") =>
       IF Complement # KC_NO THEN ProducedAlternate(out')
       ELSE ProducedNothing(out')

C12_Amended == [][C12_Step]_vars

\* Both triggers are down, each having produced its event: the alternate is
\* registered and the last step replayed the remembered press.
C12_Witness ==
  /\ last.act = "press" /\ last.k = "REP" /\ "REV" \in matrix
  /\ Cardinality(Replays(out, TRUE)) = 1
  /\ KC_RGHT \in registered

----------------------------------------------------------------------------
(* C13: whenever a press of a key other than the two triggers, outside a   *)
(* replay, passes the eligibility test and is remembered, the repeat       *)
(* counter is 0 right afterwards, whatever it was before.                  *)
C13_Step ==
  \A k \in RepKeys \ Triggers :
    (Pressed(k) /\ EligiblePresses(out') # {}) =>
      /\ last_keycode' = out'[Latest(EligiblePresses(out'))].kc
      /\ repeat_counter' = 0

C13_CounterReset == [][C13_Step]_vars

\* A key was remembered while the counter stood above 0.
C13_Witness ==
  /\ last.act = "press" /\ last.k = "LEFT" /\ EligiblePresses(out) # {}
  /\ last.counted /\ repeat_counter = 0

----------------------------------------------------------------------------
(* C14: after a key is remembered the repeat count is 0 (C13); each press  *)
(* of the Repeat key then adds 1 to the count up to 127, and leaves it at  *)
(* 127 from then on: the k-th press in a row makes it min(k, 127).         *)
INT8_MAX == 127

C14_Step ==
  (Pressed("REP") /\ Remembered) =>
    repeat_counter' =
      IF repeat_counter < INT8_MAX THEN repeat_counter + 1 ELSE INT8_MAX

C14_SaturatesAt127 == [][C14_Step]_vars

\* The Repeat key was pressed for the 128th time in a row.
C14_Case ==
  /\ last.act = "press" /\ last.k = "REP"
  /\ Cardinality(Replays(out, TRUE)) = 1
  /\ repeat_counter > INT8_MAX

----------------------------------------------------------------------------
\* The count as the int8_t that get_repeat_key_count() is declared to return.
AsInt8(c) == IF c <= INT8_MAX THEN c ELSE c - 256

(* C15: after a key is remembered the repeat count is 0; each use of the   *)
(* Alternate Repeat key then subtracts 1 from the count down to -127: the  *)
(* k-th use in a row makes it -k.                                          *)
C15_Step ==
  (Pressed("REV") /\ Complement # KC_NO /\ AsInt8(repeat_counter) <= 0) =>
    AsInt8(repeat_counter') =
      IF AsInt8(repeat_counter) > -INT8_MAX THEN AsInt8(repeat_counter) - 1
      ELSE -INT8_MAX

C15_AlternateCountsDown == [][C15_Step]_vars

\* The Alternate Repeat key registered the alternate of the remembered key.
C15_Case ==
  /\ last.act = "press" /\ last.k = "REV"
  /\ Len(Registers(out)) = 1
  /\ repeat_counter = 0

----------------------------------------------------------------------------
(* C16: the repeat count is nonzero only while a replayed key is being     *)
(* processed: whenever no replay is in progress, it reads 0.               *)
C16_CountZeroAtRest == ~recursing => repeat_counter = 0

\* A replay is over and the Repeat key has been released.
C16_Case ==
  /\ last.act = "release" /\ last.k = "REP"
  /\ Cardinality(Replays(out, FALSE)) = 1
  /\ ~recursing /\ repeat_counter = 1

----------------------------------------------------------------------------
\* The entries of o with operation op.
Marks(o, op) == {i \in DOMAIN o : o[i].op = op}

(* C17: when a replay of a press or of a release is over, the real mods    *)
(* and the layer state are what they were right before the replay began,   *)
(* and the handler leaves them so.                                         *)
C17_Step ==
  \A i \in Marks(out', "replay") :
    /\ Cardinality(Marks(out', "replay")) = 1
    /\ \E j \in Marks(out', "replayed") :
         /\ j > i /\ j = Len(out')
         /\ out'[j].mods = out'[i].mods
         /\ out'[j].layers = out'[i].layers
         /\ mods' = out'[i].mods
         /\ layer_state' = out'[i].layers

C17_ReplayRestores == [][C17_Step]_vars

\* A replay is over that ran with mods the held ones lack, and on another
\* layer state.
C17_Witness ==
  /\ last.k = "REP"
  /\ \E i \in Marks(out, "replay") :
       /\ ~Covers(out[i].mods, last_mods)
       /\ out[i].layers # last_layer_state
       /\ mods = out[i].mods /\ layer_state = out[i].layers

----------------------------------------------------------------------------
(* Vocabulary of the claims about the Alternate Repeat complement. *)

\* The pairs the last switch of the callback declares, whatever the mods.
SymmetricKeycodes == {KC_WH_U, KC_WH_D, SELWBAK, SELWFWD}

\* The pairs the callback declares for one modifier state: U/O and N/I with
\* Left Alt, and N / Shift + N.
SymmetricWithMods(keycode, m) ==
  \/ m = MOD_BIT_LALT /\ keycode \in {KC_U, KC_O, HRM_N, HRM_I}
  \/ BitClear(m, MOD_MASK_SHIFT) = 0 /\ keycode = HRM_N

\* The key of the keymap that types the basic keycode kc.
KeyFor(kc) ==
  CASE kc = KC_N -> HRM_N [] kc = KC_I -> HRM_I [] OTHER -> kc

\* The modifiers of an 8-bit modifier state, handedness ignored.
LeftHanded(m) == BitOr(m \div 16, m % 16)

\* What a keycode with modifier bits stands for: a basic keycode and the
\* modifiers held with it.
Stands(keycode) == <<keycode % 256, (keycode \div 256) % 16>>

\* The complement of the key that types what keycode b stands for.
ComplementOfTyped(b) ==
  get_alt_repeat_key_keycode_user(KeyFor(Stands(b)[1]), Stands(b)[2])

\* C18: for the pairs the alternate-repeat configuration declares symmetric,
\* the complement is an involution: when the complement of the remembered
\* key a (with its remembered mods) is b, the complement of b, once b is the
\* remembered key, is a.  For the pairs of the callback's last switch and of
\* the table of rev_repeat_key_keycode() this holds whatever the mods b is
\* remembered with; for the pairs declared for one modifier state, b is
\* remembered with the modifiers it is typed with.
C18_Involution ==
  /\ (alt.by = "user" /\ last_keycode \in SymmetricKeycodes) =>
       \A m \in AltMods :
         get_alt_repeat_key_keycode_user(alt.keycode, m) = last_keycode
  /\ (alt.by = "user" /\ SymmetricWithMods(last_keycode, last_mods)) =>
       Stands(ComplementOfTyped(alt.keycode))
         = <<last_keycode % 256, LeftHanded(last_mods)>>
  /\ (alt.by = "rev" /\ alt.keycode # KC_NO) =>
       rev_repeat_key_keycode([Cur EXCEPT !.last_keycode = alt.keycode,
                                          !.last_mods = 0])
         = BitOr(last_keycode, LeftHanded(last_mods) * 256)

\* Scroll-wheel up was remembered with Left Shift held and its complement,
\* scroll-wheel down, has been looked up.
C18_Witness ==
  /\ alt = [by |-> "user", keycode |-> KC_WH_D]
  /\ last_keycode = KC_WH_U
  /\ last_mods = MOD_BIT(KC_LSFT)

----------------------------------------------------------------------------
(* Vocabulary of the claims about Sentence Case. *)

\* The transition table: the state after a press of class c in state s, ok
\* being the result of the abbreviation check.
Transition(c, s, ok) ==
  CASE c = "LETTER" ->
         (CASE s \in {STATE_INIT, STATE_WORD, STATE_MATCHED} -> STATE_WORD
            [] s = STATE_PRIMED -> STATE_MATCHED
            [] s \in {STATE_ABBREV, STATE_ENDING} -> STATE_ABBREV)
    [] c = "PUNCT" ->
         (CASE s \in {STATE_WORD, STATE_MATCHED} -> STATE_ENDING
            [] s = STATE_ABBREV -> STATE_ABBREV
            [] s \in {STATE_INIT, STATE_ENDING, STATE_PRIMED} -> STATE_INIT)
    [] c = "SPACE" ->
         (CASE s = STATE_PRIMED -> STATE_PRIMED
            [] s = STATE_ENDING -> IF ok THEN STATE_PRIMED ELSE STATE_INIT
            [] OTHER -> STATE_INIT)
    [] OTHER -> STATE_INIT

C19_Step ==
  (IsKeyEvent(out') /\ Classified(KeyEvent(out')) /\ OnlyShiftOrAltGr) =>
    sentence_state' = Transition(ClassOf(KeyEvent(out')), sentence_state,
                                 sentence_case_check_ending(buffer))

\* C19: with no modifier other than Shift/AltGr held, each classified key
\* press moves sentence_state as the transition table says: LETTER takes
\* INIT/WORD/MATCHED to WORD, PRIMED to MATCHED, ABBREV/ENDING to ABBREV; PUNCT
\* takes WORD/MATCHED to ENDING, ABBREV to ABBREV, INIT/ENDING/PRIMED to INIT;
\* Space takes PRIMED to PRIMED, ENDING to PRIMED when the abbreviation check
\* passes and to INIT when it fails, every other state to INIT; any other
\* key takes every state to INIT.
C19_TransitionTable == [][C19_Step]_vars

\* " vs. " has been typed with no modifier and no pause: the Space after the
\* abbreviation took the machine to INIT.
C19_Witness ==
  /\ sentence_state = STATE_INIT
  /\ \A i \in 1..5 :
       buffer[SENTENCE_CASE_BUFFER_SIZE - 5 + i]
         = <<KC_SPC, KC_V, KC_S, KC_DOT, KC_SPC>>[i]
  /\ IsKeyEvent(out) /\ KeyEvent(out).pressed /\ KeyEvent(out).kc = KC_SPC
  /\ mods = 0 /\ polls = 0

\* The step is a classified press of a letter, with at most Shift/AltGr
\* held, after the typed word, punctuation and Spaces.
LetterAfterGap ==
  /\ phrase = "gap"
  /\ IsKeyEvent(out') /\ Classified(KeyEvent(out')) /\ OnlyShiftOrAltGr
  /\ ClassOf(KeyEvent(out')) = "LETTER"

ShiftHeld == BitAnd(mods, MOD_MASK_SHIFT) # 0

\* The weak modifiers the step registered.
WeakRegistered(o) == {o[i].arg : i \in {j \in DOMAIN o : o[j].op = "register_weak_mods"}}

C20_OriginalStep ==
  /\ phrase' = "gap" => sentence_state' = STATE_PRIMED
  /\ LetterAfterGap =>
       WeakRegistered(out') = IF ShiftHeld THEN {} ELSE {MOD_BIT(KC_LSFT)}

\* C20 as stated: from INIT, after a word of letters, a sentence-ending
\* punctuation key and one or more Spaces the machine is PRIMED, and the
\* press of the next letter registers a weak Left Shift unless Shift is held.
C20_Original == [][C20_OriginalStep]_vars

C20_Step ==
  /\ phrase' = "word" => sentence_state' = STATE_WORD
  /\ phrase' = "end" => sentence_state' = STATE_ENDING
  /\ (phrase = "end" /\ phrase' = "gap") =>
       sentence_state' = IF sentence_case_check_ending(buffer)
                           THEN STATE_PRIMED ELSE STATE_INIT
  /\ (phrase = "gap" /\ phrase' = "gap") => sentence_state' = sentence_state
  /\ (LetterAfterGap /\ sentence_state = STATE_PRIMED) =>
       /\ WeakRegistered(out') = IF ShiftHeld THEN {} ELSE {MOD_BIT(KC_LSFT)}
       /\ ~ShiftHeld => BitAnd(weak_mods', MOD_BIT(KC_LSFT)) # 0
       /\ sentence_state' = STATE_MATCHED
  /\ (LetterAfterGap /\ sentence_state # STATE_PRIMED) =>
       WeakRegistered(out') = {}

\* C20, amended: from INIT, with at most Shift/AltGr held and no idle timeout
\* in between, a word of letters and a sentence-ending punctuation key leave
\* the machine in ENDING; the Spaces after them leave it PRIMED when the
\* abbreviation check passes at the first Space and in INIT when it fails
\* (the keys before that Space are Space, V, S, period or Space, E, T, C,
\* period); the press of the next letter registers a weak Left Shift when
\* the machine is PRIMED and Shift is not held, and no weak modifier
\* otherwise.
C20_Amended == [][C20_Step]_vars

\* "v.  v" has been typed from power-up: the second V was pressed with the
\* machine PRIMED and registered the weak Left Shift.
C20_Witness ==
  /\ phrase = "none" /\ sentence_state = STATE_MATCHED
  /\ \A i \in 1..5 :
       buffer[SENTENCE_CASE_BUFFER_SIZE - 5 + i]
         = <<KC_V, KC_DOT, KC_SPC, KC_SPC, KC_V>>[i]
  /\ IsKeyEvent(out) /\ KeyEvent(out).pressed /\ KeyEvent(out).kc = KC_V
  /\ WeakRegistered(out) = {MOD_BIT(KC_LSFT)}

\* The buffer after v, s, period, Space typed as the first keys since
\* power-up.
VsTyped ==
  [i \in 1..SENTENCE_CASE_BUFFER_SIZE |->
     IF i <= SENTENCE_CASE_BUFFER_SIZE - 4 THEN KC_NO
     ELSE <<KC_V, KC_S, KC_DOT, KC_SPC>>[i - (SENTENCE_CASE_BUFFER_SIZE - 4)]]

C21_Step ==
  /\ (phrase' = "gap" /\ buffer' = VsTyped) => sentence_state' # STATE_PRIMED
  /\ (LetterAfterGap /\ buffer = VsTyped) => WeakRegistered(out') = {}

\* C21: "vs. w" typed from the initial state does not prime capitalization:
\* after the Space the state is not PRIMED, and the press of the letter that
\* follows registers no weak shift.
C21_VsDoesNotPrime == [][C21_Step]_vars

\* The text typed so far is not "word, punctuation, Spaces": it is the start
\* of a text, a word ("hello", and "world" after "hello "), a word and a
\* punctuation key, or letters and punctuation keys in turn ("a.a.").
NotEndingSentence == {"start", "word", "end", "abbr"}

C22_Step ==
  /\ phrase' \in NotEndingSentence => sentence_state' # STATE_PRIMED
  /\ (IsKeyEvent(out') /\ KeyEvent(out').pressed
        /\ phrase \in NotEndingSentence) =>
       /\ WeakRegistered(out') = {}
       /\ weak_mods' = weak_mods

EnterOrTab ==
  IsKeyEvent(out') /\ KeyEvent(out').pressed
    /\ KeyEvent(out').kc \in {KC_ENT, KC_TAB}

C23_OriginalStep ==
  (EnterOrTab /\ OnlyShiftOrAltGr) =>
    sentence_state' = Transition("SPACE", sentence_state,
                                 sentence_case_check_ending(buffer))

\* C23 as stated: Enter and Tab are classified as SPACE: a press of Enter or
\* Tab in PRIMED keeps PRIMED and in ENDING (the abbreviation check passing)
\* moves to PRIMED, as a press of Space does.
C23_Original == [][C23_OriginalStep]_vars

C23_Step ==
  /\ EnterOrTab => sentence_state' = STATE_INIT
  /\ (IsKeyEvent(out') /\ KeyEvent(out').pressed
        /\ KeyEvent(out').kc = KC_SPC /\ OnlyShiftOrAltGr) =>
       sentence_state' = Transition("SPACE", sentence_state,
                                    sentence_case_check_ending(buffer))

\* C23, amended: only the Space key is classified as SPACE.  A press of
\* Enter or Tab is a press of any other key: it takes every state, PRIMED
\* and ENDING included, to INIT.
C23_Amended == [][C23_Step]_vars

\* "v. " and then Enter have been typed from power-up: Enter, pressed in
\* PRIMED, took the machine to INIT.
C23_Witness ==
  /\ sentence_state = STATE_INIT
  /\ buffer = [i \in 1..SENTENCE_CASE_BUFFER_SIZE |->
                 IF i <= SENTENCE_CASE_BUFFER_SIZE - 4 THEN KC_NO
                 ELSE <<KC_V, KC_DOT, KC_SPC, KC_ENT>>[
                        i - (SENTENCE_CASE_BUFFER_SIZE - 4)]]
  /\ IsKeyEvent(out) /\ KeyEvent(out).pressed /\ KeyEvent(out).kc = KC_ENT

\* The step is a press of a pure modifier key or of a layer-switch key.
IsLayerSwitch(kc) == Ignored(kc) /\ kc > KC_RGUI
ModifierOrLayerPress ==
  IsKeyEvent(out') /\ KeyEvent(out').pressed
    /\ (IS_MODIFIER_KEYCODE(KeyEvent(out').kc)
          \/ IsLayerSwitch(KeyEvent(out').kc))

C24_OriginalStep ==
  ModifierOrLayerPress => sentence_state' = sentence_state

C24_Step ==
  ModifierOrLayerPress =>
    IF OnlyShiftOrAltGr /\ Ignored(KeyEvent(out').kc)
      THEN sentence_state' = sentence_state /\ buffer' = buffer
      ELSE sentence_state' = STATE_INIT

----------------------------------------------------------------------------
(* Vocabulary of the claims about Select Word. *)

\* The step is a matrix scan of SelectSpec.
SelectScanned == last'.act = "scan" /\ polls' = polls + 1
\* The step is an event of key k of SelectSpec.
SelectPressed(k) == last'.act = "press" /\ last'.k = k /\ k \notin matrix
SelectReleased(k) == last'.act = "release" /\ last'.k = k /\ k \in matrix
SelectKeyStep == \E k \in SelectKeys : SelectPressed(k) \/ SelectReleased(k)

C25_Step ==
  /\ SelectScanned =>
       /\ state # STATE_NONE =>
            state' = IF timer' >= select_idle_timer
                       THEN STATE_NONE ELSE state
       /\ sentence_state # STATE_INIT =>
            sentence_state' = IF timer' >= idle_timer
                                THEN STATE_INIT ELSE sentence_state
  \* the deadline is the time stamp of the last key event the state machine
  \* processed, plus its timeout
  /\ (SelectKeyStep /\ last'.k # "LSFT") =>
       select_idle_timer' = EventTime(timer) + SELECT_WORD_TIMEOUT
  /\ (\E k \in SelectKeys \ {"LSFT"} : SelectPressed(k)) /\ OnlyShiftOrAltGr =>
       idle_timer' = EventTime(timer) + SENTENCE_CASE_TIMEOUT

ChordReleased ==
  /\ chorded # {}
  /\ "SEL" \notin matrix
  /\ chorded \cap matrix = {}

\* Nothing the macro registered is registered: Shift is, when the Shift key
\* is down.
NothingOfMacro ==
  /\ BitAnd(mods, MOD_BIT(KC_LCTL)) = 0
  /\ "LSFT" \notin matrix => BitAnd(mods, MOD_BIT(KC_LSFT)) = 0
  /\ KC_RGHT \notin registered
  /\ KC_DOWN \notin registered

\* C26: when the Select Word key is pressed and then any other key is pressed
\* before its release, then once the Select Word key and that key are both
\* released, nothing the macro registered remains registered: neither Ctrl
\* nor Shift, nor KC_RGHT or KC_DOWN.
C26_NothingStuck == ChordReleased => NothingOfMacro

\* The operations of the handlers of the step, and the taps among them: the
\* keycode tapped and the real mods it was sent with.
TapsOf(o) == [i \in {j \in DOMAIN o : o[j].op = "tap_code"} |->
                <<o[i].kc, o[i].mods>>]
TappedIn(o, kc, m) == \E i \in DOMAIN TapsOf(o) : TapsOf(o)[i] = <<kc, m>>
NoTapIn(o) == DOMAIN TapsOf(o) = {}
Shifted == BitAnd(mods, MOD_MASK_SHIFT) # 0
CtrlShift == BitOr(MOD_BIT(KC_LCTL), MOD_BIT(KC_LSFT))
SelectHeld == {SELECT_STATE_WORD, STATE_FIRST_LINE, STATE_LINE}

C27_Step ==
  /\ SelectPressed("SEL") =>
       /\ (state = STATE_NONE /\ ~Shifted) =>
            /\ TappedIn(out', KC_RGHT, MOD_BIT(KC_LCTL))
            /\ TappedIn(out', KC_LEFT, MOD_BIT(KC_LCTL))
            /\ state' = SELECT_STATE_WORD
            /\ mods' = CtrlShift /\ KC_RGHT \in registered'
       /\ (state = STATE_NONE /\ Shifted) =>
            /\ TappedIn(out', KC_HOME, 0)
            /\ TappedIn(out', KC_END, MOD_BIT(KC_LSFT))
            /\ state' = STATE_FIRST_LINE
            /\ mods' = mods /\ registered' = registered
       /\ (state # STATE_NONE /\ ~Shifted) =>
            /\ NoTapIn(out')
            /\ state' = SELECT_STATE_WORD
            /\ mods' = CtrlShift /\ KC_RGHT \in registered'
       /\ (state # STATE_NONE /\ Shifted) =>
            /\ NoTapIn(out')
            /\ state' = STATE_LINE
            /\ mods' = mods /\ KC_DOWN \in registered'
  /\ (state \in SelectHeld
        /\ (SelectReleased("SEL")
              \/ \E k \in SelectKeys \ {"SEL", "LSFT"} :
                   SelectPressed(k) \/ SelectReleased(k))) =>
       /\ state' = STATE_SELECTED
       /\ registered' =
            registered \ (CASE state = SELECT_STATE_WORD -> {KC_RGHT}
                            [] state = STATE_FIRST_LINE -> {}
                            [] state = STATE_LINE -> {KC_DOWN})
       /\ mods' = IF state = SELECT_STATE_WORD
                    THEN BitClear(mods, CtrlShift) ELSE mods

\* C27: from NONE an unshifted press of the Select Word key does the
\* first-press cursor positioning and enters WORD with Ctrl, Shift and Right
\* registered, and a shifted press selects the line and enters FIRST_LINE; a
\* press in a state other than NONE extends the selection without the
\* positioning (unshifted: WORD again; shifted: LINE, with Down registered);
\* the next event that is not of a Shift key, in WORD, FIRST_LINE or LINE
\* (the release of the Select Word key or an event of another key), moves to
\* SELECTED and unregisters what the macro registered.
C27_Transitions == [][C27_Step]_vars

\* A shifted press of the Select Word key after a line was selected: LINE,
\* with Down registered.
C27_Witness ==
  /\ last.act = "press" /\ last.k = "SEL"
  /\ state = STATE_LINE
  /\ KC_DOWN \in registered

\* The event of the step reached the default handling.
PassedThrough == IsKeyEvent(out')
\* The step is an event of key k other than a press of the Select Word key
\* and an event of a Shift key.
SelectOther(k) ==
  /\ k # "LSFT"
  /\ SelectPressed(k) \/ SelectReleased(k)
  /\ ~SelectPressed("SEL")

C28_Step ==
  state = STATE_SELECTED =>
    /\ SelectPressed("ESC") =>
         /\ TappedIn(out', KC_RGHT, mods)
         /\ state' = STATE_NONE
         /\ ~PassedThrough
    /\ \A k \in SelectKeys :
         (SelectOther(k) /\ ~SelectPressed("ESC")) =>
           /\ state' = STATE_NONE
           /\ PassedThrough
           /\ NoTapIn(out')

\* C28: from SELECTED, a press of Escape taps Right, moves the state to NONE
\* and is swallowed; any other key event that is neither a press of the
\* Select Word key nor an event of a Shift key moves the state to NONE and is
\* passed through unchanged.
C28_FromSelected == [][C28_Step]_vars

----------------------------------------------------------------------------
(* Vocabulary of the claims about Custom Shift Keys. *)

\* The output keycode of the active remapped key, KC_NO when none is active.
ActiveOutput ==
  IF restore_late
    THEN IF active_key = kNone THEN KC_NO
         ELSE custom_shift_keycode(active_key, csk_shifted)
    ELSE registered_keycode
\* The step is an event of key k of CustomSpec.
CustomPressed(k) == last'.act = "press" /\ last'.k = k /\ k \notin matrix
CustomReleased(k) == last'.act = "release" /\ last'.k = k /\ k \in matrix
CustomKeyStep == \E k \in CustomKeys : CustomPressed(k) \/ CustomReleased(k)
Remapped(k) == CustomIndex(CustomKeycode[k]) # kNone
\* The real mods of the modifier keys that are down.
HeldModsOf(K) ==
  LET bit(k) == IF k \in K /\ IS_MODIFIER_KEYCODE(CustomKeycode[k])
                  THEN MOD_BIT(CustomKeycode[k]) ELSE 0
  IN  bit("LSFT") + bit("RSFT") + bit("LCTL")
RegistersIn(o) == {i \in DOMAIN o : o[i].op = "register_code16"}

C29_Step ==
  /\ registered' = IF ActiveOutput' = KC_NO THEN {} ELSE {ActiveOutput'}
  /\ (CustomKeyStep /\ ActiveOutput # KC_NO) =>
       /\ out' # <<>>
       /\ out'[1].op = "unregister_code16" /\ out'[1].kc = ActiveOutput
       /\ \A i \in RegistersIn(out') : i > 1

\* C29: at most one custom-shift output keycode is registered at any time:
\* whenever a remapped key is active, the next key event of any kind (its own
\* release, the press of a second remapped key or any other key event) first
\* unregisters it, before any other keycode is registered.
C29_OneActive == [][C29_Step]_vars

\* The / key was pressed while the . key, remapped and registered, was still
\* down: / alone is registered.
C29_Witness ==
  /\ last.act = "press" /\ last.k = "SLSH"
  /\ "DOT" \in matrix
  /\ registered = {KC_SLSH}

ShiftKeyDown == BitAnd(HeldModsOf(matrix), MOD_MASK_SHIFT) # 0

C30_Step ==
  /\ \A k \in CustomKeys :
       (CustomPressed(k) /\ Remapped(k)) =>
         /\ \E i \in RegistersIn(out') :
              /\ out'[i].kc =
                   custom_shift_keycode(CustomIndex(CustomKeycode[k]),
                                        ShiftKeyDown)
              /\ out'[i].mods = BitClear(HeldModsOf(matrix), MOD_MASK_SHIFT)
         /\ \A i \in DOMAIN out' :
              BitClear(out'[i].mods, MOD_MASK_SHIFT)
                = BitClear(HeldModsOf(matrix), MOD_MASK_SHIFT)
  /\ ActiveOutput' = KC_NO => mods' = HeldModsOf(matrix')
  /\ BitClear(mods', MOD_MASK_SHIFT)
       = BitClear(HeldModsOf(matrix'), MOD_MASK_SHIFT)

\* C30: the press of a remapped key while Shift is held removes Shift from
\* the real mods for the registration of the output keycode; the Shift mods
\* held at the press are in effect again once the remapped key is released
\* or interrupted by another key event; the real mods that are not Shift are
\* never changed by the remap.
C30_ShiftRestored == [][C30_Step]_vars

\* The . key was pressed with Left Shift and Left Ctrl down: ? is
\* registered, Ctrl is still in the real mods.
C30_Witness ==
  /\ last.act = "press" /\ last.k = "DOT"
  /\ {"LSFT", "LCTL"} \subseteq matrix
  /\ registered = {KC_QUES}
  /\ BitAnd(mods, MOD_BIT(KC_LCTL)) # 0

----------------------------------------------------------------------------
----------------------------------------------------------------------------
(* C32: Achordion is the first handler of an event, and an event it        *)
(* returns false for is seen by no later handler and by no default         *)
(* handling.  A captured press and the release of the active key leave     *)
(* Repeat Key's state alone and reach no default handling; a press that    *)
(* resolves a pending key reaches them once, as the event Achordion        *)
(* re-processes inside its own process_record() call, after the replayed   *)
(* tap press when the key was resolved as tap.                             *)
C32_Step ==
  \A k \in Moved :
    /\ (Pressed(k) /\ ~Active /\ IsTapHold(Kc(k)) /\ tapcnt'[k] = 0
          /\ achordion_timeout(Kc(k)) > 0) =>
         /\ Captured(out') /\ Defaults(out') = <<>>
         /\ UNCHANGED repVars
         /\ nesting' = NoCalls
    /\ (Released(k) /\ tap_hold_keycode = Kc(k)) =>
         /\ Defaults(out') = <<>>
         /\ UNCHANGED repVars
         /\ nesting' = NoCalls
    /\ (Pressed(k) /\ Pending) =>
         LET d == Defaults(out') IN
           /\ nesting'.ach = 1
           /\ Len(d) \in {1, 2}
           /\ Delivery(d[Len(d)], Kc(k), TRUE, tapcnt'[k])
           /\ Len(d) = 2 =>
                /\ TapReplayed'
                /\ Delivery(d[1], tap_hold_keycode, TRUE, 1)

C32_AchordionFirst == [][C32_Step]_vars

\* A press resolved the pending key as tap: the later handlers saw the
\* replayed tap press and then the re-processed press, which Repeat Key
\* remembered.
C32_Witness ==
  /\ last.act = "press" /\ TapReplayed /\ nesting.ach = 1
  /\ Len(Defaults(out)) = 2
  /\ last_keycode = Kc(last.k)

----------------------------------------------------------------------------
(* C33: achordion_task applies a hold action only for an active, unsettled *)
(* tap-hold key: a matrix scan that finds no tap-hold key active (at       *)
(* power-up, or after the active key was released) registers no mods and   *)
(* turns on no layer.                                                      *)
C33_Step ==
  (Scanned /\ tap_hold_keycode = KC_NO) =>
    /\ \A i \in DOMAIN out' : ~IsHoldOp(out'[i])
    /\ mods' = mods /\ layer_state' = layer_state
    /\ hold_mods' = hold_mods /\ hold_layer' = hold_layer

C33_IdleTaskInert == [][C33_Step]_vars

\* A scan with no tap-hold key active turned layer 0 on.
C33_Case ==
  /\ last.act = "scan" /\ tap_hold_keycode = KC_NO
  /\ Len(out) = 1 /\ out[1].op = "layer_on" /\ out[1].arg = 0
  /\ layer_state = 1

----------------------------------------------------------------------------
(* C34: what the press of the Repeat or the Alternate Repeat key           *)
(* synthesized is released again at the release of that trigger, also when *)
(* other eligible keys are pressed while the trigger is held: once neither *)
(* trigger is down, no key a trigger registered is still registered.       *)
C34_ReleaseMatched == (matrix \cap Triggers = {}) => registered = {}

\* The Alternate Repeat key was released after another key was remembered,
\* and the alternate its press registered is still registered.
C34_Case ==
  /\ last.act = "release" /\ last.k = "REV"
  /\ matrix \cap Triggers = {}
  /\ last_keycode = KC_K /\ registered = {KC_RGHT}

----------------------------------------------------------------------------
(* C35: in the Select Word with an idle timeout, whenever the state is     *)
(* NONE or SELECTED nothing the macro registered is still registered:      *)
(* neither KC_RGHT nor KC_DOWN, nor the Ctrl and Shift overlay.  This      *)
(* holds after every key event and after every matrix scan, whether or not *)
(* the Select Word key is still down when the idle deadline expires.       *)
C35_IdleMeansReleased ==
  state \in {STATE_NONE, STATE_SELECTED} => NothingOfMacro

\* The idle timeout ended a word selection while the Select Word key was
\* still down.
C35_Case ==
  /\ last.act = "scan" /\ state = STATE_NONE
  /\ "SEL" \in matrix
  /\ KC_RGHT \in registered /\ mods = CtrlShift

----------------------------------------------------------------------------
(* C36 as claimed: a press of the Select Word key followed by its release, *)
(* with no other key event in between, leaves the real mods as they were   *)
(* before the press, unshifted or shifted: the modifiers of the modifier   *)
(* keys that are down are still registered after the release.              *)
OverlayModsOf(K) ==
  LET bit(k) == IF k \in K THEN MOD_BIT(SelectKeycode[k]) ELSE 0
  IN  bit("LSFT") + bit("LALT")

\* The release of the Select Word key, right after its press.
SelectTapped ==
  SelectReleased("SEL") /\ last.act = "press" /\ last.k = "SEL"

C36_OriginalStep ==
  SelectTapped => Covers(mods', OverlayModsOf(matrix'))

C36_Step ==
  /\ (SelectPressed("SEL") /\ Shifted) =>
       /\ mods' = mods
       /\ state' \in {STATE_FIRST_LINE, STATE_LINE}
  /\ (SelectPressed("SEL") /\ ~Shifted) =>
       /\ mods' = CtrlShift
       /\ state' = SELECT_STATE_WORD
  /\ (SelectTapped /\ state \in {STATE_FIRST_LINE, STATE_LINE}) =>
       mods' = mods
  /\ (SelectTapped /\ state = SELECT_STATE_WORD) =>
       /\ mods' = 0
       /\ state' = STATE_SELECTED

----------------------------------------------------------------------------
(* C37: the deadline checks are right across the wraparound of the 16-bit  *)
(* millisecond clock.  A deadline is the time stamp of an event plus a     *)
(* timeout below 32768 ms; when that sum overflows 16 bits, achordion_task,*)
(* sentence_case_task and select_word_task still act at the first matrix   *)
(* scan at or after the deadline and at no scan before it.                 *)

\* The milliseconds since power-up at the scan number p of WrapSpec, and
\* those a 16-bit deadline d of WrapSpec stands for: the clock wraps once.
WrapNow(p) == WrapStart + p * WrapTick
WrapDeadline(d) == IF d >= WrapStart THEN d ELSE d + TimerModulus

WrapScanned == last'.act = "scan" /\ polls' = polls + 1

C37_Step ==
  WrapScanned =>
    /\ timer' = WrapNow(polls') % TimerModulus
    /\ Pending =>
         IF WrapNow(polls') >= WrapDeadline(hold_timer)
           THEN /\ settled'
                /\ \E i \in DOMAIN out' :
                     out'[i].op = "register_mods" /\ out'[i].arg = MOD_LCTL
           ELSE ~settled' /\ out' = <<>>
    /\ sentence_state # STATE_INIT =>
         sentence_state' = IF WrapNow(polls') >= WrapDeadline(idle_timer)
                             THEN STATE_INIT ELSE sentence_state
    /\ state # STATE_NONE =>
         state' = IF WrapNow(polls') >= WrapDeadline(select_idle_timer)
                    THEN STATE_NONE ELSE state

C37_Wraparound == [][C37_Step]_vars

\* The clock has wrapped; the mod-tap key, pressed before the wraparound,
\* was settled by the scan after its deadline, which had overflowed, and the
\* idle deadline of Sentence Case, overflowed too, has passed.
C37_Witness ==
  /\ last.act = "scan" /\ timer < WrapStart
  /\ tap_hold_keycode = HOME_D /\ settled /\ hold_mods = MOD_LCTL
  /\ hold_timer < timer /\ tap_hold_record.time >= WrapStart
  /\ sentence_state = STATE_INIT /\ idle_timer # 0 /\ idle_timer < timer

----------------------------------------------------------------------------
(* C38: timeout handling is idempotent.  Once a deadline has passed and a  *)
(* matrix scan has run the task that acts on it, the matrix scans that     *)
(* follow with no key event in between change no state of that task and    *)
(* have no side effect: the hold action is not applied again, the sentence *)
(* state is not set again, the selection state is not reset again.         *)
C38_Step ==
  /\ WrapScanned =>
       \* a task that has acted has nothing left to do, however late the scan
       /\ settled =>
            /\ UNCHANGED achVars
            /\ \A i \in DOMAIN out' : ~IsHoldOp(out'[i])
       /\ sentence_state = STATE_INIT => UNCHANGED senVars
       /\ state = STATE_NONE => UNCHANGED selVars
  /\ (WrapScanned /\ last.act = "scan") =>
       /\ timer_expired(timer, hold_timer) =>
            /\ UNCHANGED achVars
            /\ \A i \in DOMAIN out' : ~IsHoldOp(out'[i])
       /\ timer_expired(timer, idle_timer) => UNCHANGED senVars
       /\ timer_expired(timer, select_idle_timer) => UNCHANGED selVars
       /\ (/\ timer_expired(timer, hold_timer)
           /\ timer_expired(timer, idle_timer)
           /\ timer_expired(timer, select_idle_timer)) =>
            /\ out' = <<>>
            /\ UNCHANGED <<mods, layer_state, weak_mods, registered>>

C38_Idempotent == [][C38_Step]_vars

\* The three deadlines have passed, the scan that found the mod-tap key's
\* passed has applied its hold action, and a scan after it did nothing.
C38_Witness ==
  /\ last.act = "scan" /\ out = <<>>
  /\ tap_hold_keycode = HOME_D /\ settled /\ hold_mods = MOD_LCTL
  /\ "D" \in matrix
  /\ timer_expired((timer - WrapTick) % TimerModulus, hold_timer)
  /\ timer_expired(timer, idle_timer)
  /\ timer_expired(timer, select_idle_timer)

----------------------------------------------------------------------------
(* C39: with a state history, Backspace rolls the state back.  After n     *)
(* classified key presses in a row (letter, punctuation or Space) and then *)
(* b Backspace presses, b <= n and b <= HISTORY_SIZE, sentence_state is    *)
(* the state it had before the last b of those presses; with b = n, the    *)
(* state before the n presses.  (No other key is pressed in between, and   *)
(* the idle timeout does not run out.)                                     *)
C39_RolledBack ==
  (run.back >= 1 /\ run.back <= Len(run.before)) =>
    sentence_state = run.before[Len(run.before) - run.back + 1]

\* HISTORY_SIZE presses that took the state from STATE_WORD through
\* STATE_PRIMED, and as many Backspace presses: the state is STATE_WORD
\* again.
C39_Witness ==
  /\ run.n = HISTORY_SIZE /\ run.back = HISTORY_SIZE
  /\ run.before[1] = STATE_WORD
  /\ \E i \in DOMAIN run.before : run.before[i] = STATE_PRIMED
  /\ sentence_state = STATE_WORD
  /\ matrix = {"BSPC"}

----------------------------------------------------------------------------
(* C40: while a tap-hold key is pending (active and not settled), the      *)
(* release of any other key leaves it pending: no hold action is applied,  *)
(* no tap is replayed, the deadline and the rest of Achordion's state are  *)
(* unchanged, and the release is delivered once to the default handling.   *)
(* A pending key is settled only by a press of another key or by a matrix  *)
(* scan at or after its deadline.                                          *)
C40_Step ==
  /\ \A k \in Moved :
       (Pending /\ Released(k) /\ Kc(k) # tap_hold_keycode) =>
         /\ UNCHANGED achVars
         /\ \A i \in DOMAIN out' : ~IsHoldOp(out'[i])
         /\ ~TapReplayed'
         /\ UNCHANGED <<mods, layer_state>>
         /\ Len(Defaults(out')) = 1
         /\ Delivery(Defaults(out')[1], Kc(k), FALSE, tapcnt[k])
  /\ (Pending /\ settled') =>
       \/ \E k \in Keys : Pressed(k) /\ Kc(k) # tap_hold_keycode
       \/ Scanned /\ timer_expired(timer', hold_timer)

C40_OtherReleaseInert == [][C40_Step]_vars

\* A key pressed before the tap-hold key was released while the tap-hold key
\* was pending: the release was delivered and the key is still pending,
\* before its deadline, after a matrix scan.
C40_Witness ==
  /\ last.act = "release" /\ Kc(last.k) # tap_hold_keycode
  /\ Pending /\ ~timer_expired(timer, hold_timer)
  /\ polls >= 1 /\ timer # tap_hold_record.time
  /\ \E k \in matrix : Kc(k) = tap_hold_keycode
  /\ Len(out) = 1 /\ Delivery(out[1], Kc(last.k), FALSE, last.count)

====
